---- MODULE Spec2Model ----
(***************************************************************************)
(* usgmon: the scan orchestrator (internal/daemon) driving the streaming   *)
(* scan pipeline (internal/scanner) and the persistence collaborator       *)
(* (internal/storage).                                                     *)
(*                                                                         *)
(* Goroutines are modelled by program counters: Run (runPc), one path loop *)
(* per configured path (loopPc) with its synchronous runScan (scanPc), and *)
(* for every scan execution an enumerator (enumPc), the workers (wPc) and  *)
(* the closer (resClosed).  A scan execution is named e = <<p, k>>: the    *)
(* k-th scan of the p-th entry of cfg.Paths; that pair also stands for the *)
(* scan identifier returned by StartScan and for the cancel function of    *)
(* the scan's context.                                                     *)
(***************************************************************************)
EXTENDS Integers, Sequences, FiniteSets, TLC

\* ---------------------------------------------------------------- bounds
\* Longest list of monitored paths.
MaxPaths == 2
\* Most target-depth directories under one base path (single-path runs).
MaxDirs == 3
\* Most target-depth directories under one base path (multi-path and API runs).
MaxDirsDaemon == 1
\* Largest configured worker count.
MaxWorkers == 2
\* Ticker ticks a path loop may consume after its initial scan (multi-path runs).
MaxTicks == 1
\* Records per flushed batch; the source value is 100, scaled down.
batchSize == 2
\* Calls of Run and of Stop made on one daemon (runs that exercise the API).
MaxRuns == 2
MaxStops == 2
\* Directories at the target depth in runs that fill both channels of a
\* one-worker pipeline: 4 in dirCh, 1 in the worker, 2 in resultCh, 1 more.
MaxDirsPipe == 8
\* Nodes (directories, files and symlinks) of an enumerated file system,
\* the base path included, and the largest depth asked for.
NumNodes == 4
MaxDepth == 3
\* Target directories of a scan whose strategy selection is followed.
MaxTargets == 2
\* Entries of the walked file system that cannot be read.
MaxUnreadable == 2
\* Largest interval, in seconds, of a configuration (runs about the tickers).
MaxInterval == 2

Keys == {"/a", "/b"}
PathIdx == 1..MaxPaths
Execs == PathIdx \X (1..(MaxTicks + MaxRuns))
None == <<>>

VARIABLES
  cfg,            \* d.cfg: [Paths: sequence of path keys, Workers: scan.workers,
                  \*         Interval: scan.interval, Intervals: interval of each path]
  workers,        \* Scanner.workers
  sizeErrs,       \* error outcomes the strategy's GetSize can have in this run
  dirLimit,       \* most target-depth directories the file system holds under a base path
  ctxCancelled,   \* the context passed to Run is cancelled
  pathCancelled,  \* pathCancel() has been called
  scanCancelled,  \* per execution: the scan's own cancel() has been called
  cancelAt,       \* history: <<scanPc, Len(batch)>> when the scan context got cancelled
  running,        \* d.running
  runPc,          \* position of Run
  stopCh,         \* d.stopCh: None (nil) or <<identity, closed>>
  doneCh,         \* d.doneCh: None (nil) or <<identity, closed>>
  runsLeft,       \* calls of Run the callers may still make
  stopsLeft,      \* calls of Stop the callers may still make
  panicked,       \* a goroutine has panicked (close of a closed channel)
  loopPc,         \* position of every runPathScanner goroutine
  ticksLeft,      \* ticks the ticker of a path loop may still deliver
  interval,       \* interval of the ticker of a path loop (0: no ticker yet)
  scanNo,         \* scans started so far by a path loop
  scanners,       \* d.scanners: path key -> cancel function (execution) or None
  scanPc,         \* position of runScan inside a path loop
  batch,          \* runScan's un-flushed batch (directories)
  totalRecords,   \* runScan's totalRecords
  scanStatus,     \* scans.status per scan id: "none", "running", "completed", "failed"
  scanReason,     \* reason text of a failed scan
  scanCount,      \* scans.directories_scanned
  usage,          \* usage_records: set of [scan, base, dir]
  callLog,        \* history: storage calls made for each scan, in order
  enumPc,         \* enumerator goroutine: "none", "list", "send", "done"
  emitted,        \* directories the enumerator has sent
  dirCh,          \* buffered content of dirCh
  dirClosed,      \* dirCh has been closed
  wPc,            \* workers: "recv", "getsize", "send", "done"
  wDir,           \* directory a worker holds
  wErr,           \* error flag of the result a worker is about to send
  measureFailed,  \* history: directories whose GetSize returned an error
  measured,       \* history: number of GetSize invocations per directory
  produced,       \* history: number of results sent on resultCh per directory
  resultCh,       \* buffered content of resultCh: [dir, err]
  resClosed,      \* resultCh has been closed
  chanOps,        \* history: close(dirCh) and close(resultCh) executed, sends on a closed channel
  \* One call of ScanPathWithOptions (batch mode):
  bPc,            \* position of the caller: idle, submit, collect, drain, returned
  bCtxDone,       \* the context passed to the call is cancelled
  bCancelAt,      \* history: <<bPc, bSent>> when that context got cancelled
  bDirs,          \* len(dirs) of the list getDirectoriesAtDepth returned
  bSent,          \* directories sent on workCh so far
  workCh,         \* buffered content of workCh
  workClosed,     \* workCh has been closed
  bwPc,           \* per worker: recv, getsize, send, done
  bwDir,          \* per worker: the directory it holds
  bwErr,          \* per worker: the error GetSize returned
  bResultCh,      \* buffered content of the call's resultCh: [dir, err]
  bResClosed,     \* the call's resultCh has been closed
  bResults,       \* the results slice of the caller
  bErr,           \* the error the call returned ("" is nil)
  bOp,            \* the one-shot call made: "", "ScanPath" or "ScanSingle"
  bFailed,        \* history: the directories whose GetSize returned an error
  \* The file system under a base path and one enumeration of it:
  fsKind,         \* per node: dir, file, link or missing (node 1 is the base path)
  fsParent,       \* per node: the directory that holds its entry (0 for the base)
  fsTarget,       \* per link: the node it resolves to (0: broken)
  fsBad,          \* the directory that cannot be listed or stat-ed (0: none)
  fsBadKind,      \* what fails on fsBad: list (os.ReadDir) or stat
  depth,          \* the depth argument of the enumeration
  followSymlinks, \* opts.FollowSymlinks
  eMode,          \* eager (getDirectoriesAtDepth) or stream (streamDirectoriesAtDepth)
  ePc,            \* idle, level, done
  eCtxDone,       \* the context of the streaming enumeration is cancelled
  eD,             \* the level counter d of the enumeration loops
  eIdx,           \* directories of currentLevel already listed
  currentLevel,   \* paths (sequences of nodes from the base) of the current level
  nextLevel,      \* paths admitted to the next level so far
  visited,        \* the visitedSet: identities seen in this scan
  yielded,        \* paths returned (eager) or sent on dirCh (stream)
  eErr,           \* the error the enumeration returned ("" is nil)
  admits,         \* history: [id, level] of every admission to a level
  \* Strategy selection of one scan:
  preset,         \* Scanner.strategy: nil, or the name of the strategy New was given
  onCeph,         \* per path (0: the base path, 1..: target directories): it is on CephFS
  hasDu,          \* exec.LookPath("du") succeeds
  scanStrategy,   \* the strategy variable of the scan ("unset" before its selection)
  usedStrategy,   \* per target directory: the strategy whose GetSize measured it
  \* One WalkStrategy.GetSize call on the file system above:
  wkRoot,         \* the path argument (a node; 0: no call is modelled)
  wkUnreadable,   \* directories whose os.ReadDir fails, other entries whose d.Info() fails
  wkPc,           \* idle, walk, done
  wkCtxDone,      \* the context of the call is cancelled
  wkTodo,         \* pending calls of the WalkDir callback, in walk order
  wkTotal,        \* totalSize
  wkSize,         \* the size GetSize returned
  wkErr           \* the error GetSize returned ("" is nil)

cfgVars == <<cfg, workers, dirLimit, sizeErrs>>
ctxVars == <<ctxCancelled, pathCancelled, scanCancelled, cancelAt>>
apiVars == <<stopCh, doneCh, runsLeft, stopsLeft, panicked>>
runVars == <<running, runPc, apiVars>>
loopVars == <<loopPc, ticksLeft, interval, scanNo>>
scanVars == <<scanPc, batch, totalRecords>>
storeVars == <<scanStatus, scanReason, scanCount, usage, callLog>>
pipeVars == <<enumPc, emitted, dirCh, dirClosed, wPc, wDir, wErr, measureFailed, measured, produced,
              resultCh, resClosed, chanOps>>
batchVars == <<bPc, bCtxDone, bCancelAt, bDirs, bSent, workCh, workClosed, bwPc, bwDir, bwErr,
               bResultCh, bResClosed, bResults, bErr, bOp, bFailed>>
fsVars == <<fsKind, fsParent, fsTarget, fsBad, fsBadKind, depth, followSymlinks, eMode>>
enumVars == <<fsVars, ePc, eCtxDone, eD, eIdx, currentLevel, nextLevel, visited, yielded, eErr, admits>>
stratVars == <<preset, onCeph, hasDu, scanStrategy, usedStrategy>>
walkVars == <<wkRoot, wkUnreadable, wkPc, wkCtxDone, wkTodo, wkTotal, wkSize, wkErr>>
vars == <<cfgVars, ctxVars, runVars, loopVars, scanners, scanVars, storeVars, pipeVars, batchVars,
          enumVars, stratVars, walkVars>>

\* ------------------------------------------------------------- helpers
Paths == 1..Len(cfg.Paths)
Key(p) == cfg.Paths[p]
Cur(p) == <<p, scanNo[p]>>
Live(e) == e[1] \in Paths /\ e[2] <= scanNo[e[1]]
Executing(e) == Live(e) /\ e = Cur(e[1]) /\ scanPc[e[1]] # "idle"
Ended(e) == Live(e) /\ ~Executing(e)

\* scanner.New: worker counts below 1 are coerced to 1.
New(w) == IF w < 1 THEN 1 ELSE w

\* The loop "for i := 0; i < s.workers; i++" of ScanPathStreaming.
WorkerIds_offByOne(n) == 0..n
WorkerIds(n) == 1..n

\* Capacities of the two channels of ScanPathStreaming.
DirChCap_fivePerWorker == workers * 5
DirChCap == workers * 4
ResultChCap == workers * 2

\* scanCtx is derived from pathCtx, which is derived from Run's ctx.
PathCtxDone == ctxCancelled \/ pathCancelled
ScanCtxDone(e) == ctxCancelled \/ pathCancelled \/ scanCancelled[e]

\* Directories the enumerator of scan e has yielded so far; the i-th
\* directory it finds is named i.
TargetDirs(e) == 1..emitted[e]

UsageOf(e) == {r \in usage : r.scan = e}

PcOf(e) ==
  IF Executing(e) THEN scanPc[e[1]]
  ELSE IF Live(e) THEN "over" ELSE "unborn"

\* The cancel flags after a step, with the history of cancellations: the
\* position of each scan when its context turns from live to cancelled.
SetCancel(c, pc, sc) ==
  /\ ctxCancelled' = c
  /\ pathCancelled' = pc
  /\ scanCancelled' = sc
  /\ cancelAt' = [e \in Execs |->
       IF cancelAt[e] = None /\ ~ScanCtxDone(e) /\ (c \/ pc \/ sc[e])
       THEN <<PcOf(e), IF Executing(e) THEN Len(batch[e[1]]) ELSE 0>>
       ELSE cancelAt[e]]

\* ---------------------------------------------------------------- Init
InitState ==
  /\ workers = New(cfg.Workers)
  /\ ctxCancelled = FALSE
  /\ pathCancelled = FALSE
  /\ scanCancelled = [e \in Execs |-> FALSE]
  /\ cancelAt = [e \in Execs |-> None]
  /\ running = FALSE
  /\ runPc = "idle"
  /\ stopCh = None
  /\ doneCh = None
  /\ panicked = FALSE
  /\ loopPc = [p \in PathIdx |-> "none"]
  /\ interval = [p \in PathIdx |-> 0]
  /\ scanNo = [p \in PathIdx |-> 0]
  /\ scanners = [k \in Keys |-> None]
  /\ scanPc = [p \in PathIdx |-> "idle"]
  /\ batch = [p \in PathIdx |-> <<>>]
  /\ totalRecords = [p \in PathIdx |-> 0]
  /\ scanStatus = [e \in Execs |-> "none"]
  /\ scanReason = [e \in Execs |-> ""]
  /\ scanCount = [e \in Execs |-> 0]
  /\ usage = {}
  /\ callLog = [e \in Execs |-> <<>>]
  /\ enumPc = [e \in Execs |-> "none"]
  /\ emitted = [e \in Execs |-> 0]
  /\ dirCh = [e \in Execs |-> <<>>]
  /\ dirClosed = [e \in Execs |-> FALSE]
  /\ wPc = [e \in Execs |-> <<>>]
  /\ wDir = [e \in Execs |-> <<>>]
  /\ wErr = [e \in Execs |-> <<>>]
  /\ measureFailed = [e \in Execs |-> {}]
  /\ measured = [e \in Execs |-> <<>>]
  /\ produced = [e \in Execs |-> <<>>]
  /\ resultCh = [e \in Execs |-> <<>>]
  /\ resClosed = [e \in Execs |-> FALSE]
  /\ chanOps = [e \in Execs |-> [dirCh |-> 0, resultCh |-> 0, late |-> FALSE]]
  /\ bPc = "idle"
  /\ bCtxDone = FALSE
  /\ bCancelAt = None
  /\ bDirs = 0
  /\ bSent = 0
  /\ workCh = <<>>
  /\ workClosed = FALSE
  /\ bwPc = <<>>
  /\ bwDir = <<>>
  /\ bwErr = <<>>
  /\ bResultCh = <<>>
  /\ bResClosed = FALSE
  /\ bResults = <<>>
  /\ bErr = ""
  /\ bOp = ""
  /\ bFailed = {}
  /\ wkPc = "idle"
  /\ wkCtxDone = FALSE
  /\ wkTodo = <<>>
  /\ wkTotal = 0
  /\ wkSize = 0
  /\ wkErr = ""
  /\ ePc = "idle"
  /\ eCtxDone = FALSE
  /\ eD = 0
  /\ eIdx = 0
  /\ currentLevel = <<>>
  /\ nextLevel = <<>>
  /\ visited = {}
  /\ yielded = <<>>
  /\ eErr = ""
  /\ admits = <<>>
  /\ scanStrategy = "unset"
  /\ usedStrategy = <<>>

\* Runs that are not about the enumeration of a tree: an empty file system.
NoTree ==
  /\ fsKind = <<>>
  /\ fsParent = <<>>
  /\ fsTarget = <<>>
  /\ fsBad = 0
  /\ fsBadKind = "list"
  /\ depth = 0
  /\ followSymlinks = FALSE
  /\ eMode = "eager"

\* Runs without a WalkStrategy.GetSize call.
NoWalk ==
  /\ wkRoot = 0
  /\ wkUnreadable = {}

\* Runs that are not about the selection of a strategy.
NoStrategy ==
  /\ preset = "nil"
  /\ onCeph = <<>>
  /\ hasDu = FALSE

\* Path intervals of a configuration in which no path overrides scan.interval.
NoOverride == [p \in PathIdx |-> 0]

\* One monitored path, any worker count, up to MaxDirs directories.
Init ==
  /\ NoStrategy
  /\ NoWalk
  /\ NoTree
  /\ sizeErrs = BOOLEAN
  /\ cfg \in [Paths : {<<"/a">>}, Workers : 0..MaxWorkers,
              Interval : {1}, Intervals : {NoOverride}]
  /\ dirLimit = [p \in PathIdx |-> IF p = 1 THEN MaxDirs ELSE 0]
  /\ ticksLeft = [p \in PathIdx |-> 0]
  /\ runsLeft = 1
  /\ stopsLeft = 0
  /\ InitState

\* Several monitored paths (path keys may repeat: Config.Validate checks only
\* that a path is not empty and its depth not negative) and one worker.  The
\* first path has up to MaxDirsDaemon directories and is scanned once; the
\* other base paths are empty directories and their tickers deliver up to
\* MaxTicks ticks.
PathLists == {l \in UNION {[1..n -> Keys] : n \in 2..MaxPaths} : l[1] = "/a"}

InitDaemon ==
  /\ NoStrategy
  /\ NoWalk
  /\ NoTree
  /\ sizeErrs = BOOLEAN
  /\ cfg \in [Paths : PathLists, Workers : {1}, Interval : {1}, Intervals : {NoOverride}]
  /\ dirLimit = [p \in PathIdx |-> IF p = 1 THEN MaxDirsDaemon ELSE 0]
  /\ ticksLeft = [p \in PathIdx |-> IF p = 1 THEN 0 ELSE MaxTicks]
  /\ runsLeft = 1
  /\ stopsLeft = 0
  /\ InitState

\* No or one monitored path, one worker, and callers that call Run up to
\* MaxRuns times and Stop up to MaxStops times.
InitApi ==
  /\ NoStrategy
  /\ NoWalk
  /\ NoTree
  /\ sizeErrs = BOOLEAN
  /\ cfg \in [Paths : {<<>>, <<"/a">>}, Workers : {1}, Interval : {1}, Intervals : {NoOverride}]
  /\ dirLimit = [p \in PathIdx |-> IF p = 1 THEN MaxDirsDaemon ELSE 0]
  /\ ticksLeft = [p \in PathIdx |-> 0]
  /\ runsLeft = MaxRuns
  /\ stopsLeft = MaxStops
  /\ InitState

\* One monitored path with one worker whose ticker delivers up to MaxTicks
\* ticks; scan.interval is at least 1 (Config.Validate) and the path's own
\* interval is negative, absent (0) or positive.
InitTicks ==
  /\ NoStrategy
  /\ NoWalk
  /\ NoTree
  /\ sizeErrs = BOOLEAN
  /\ cfg \in [Paths : {<<"/a">>}, Workers : {1}, Interval : 1..MaxInterval,
              Intervals : {[p \in PathIdx |-> i] : i \in (0 - 1)..MaxInterval}]
  /\ dirLimit = [p \in PathIdx |-> IF p = 1 THEN MaxDirsDaemon ELSE 0]
  /\ ticksLeft = [p \in PathIdx |-> MaxTicks]
  /\ runsLeft = 1
  /\ stopsLeft = 0
  /\ InitState

\* One monitored path with one worker, a strategy that measures every
\* directory, and a listing long enough to fill dirCh behind a worker that is
\* blocked on a full resultCh.
InitPipe ==
  /\ NoStrategy
  /\ NoWalk
  /\ NoTree
  /\ sizeErrs = {FALSE}
  /\ cfg \in [Paths : {<<"/a">>}, Workers : {1}, Interval : {1}, Intervals : {NoOverride}]
  /\ dirLimit = [p \in PathIdx |-> IF p = 1 THEN MaxDirsPipe ELSE 0]
  /\ ticksLeft = [p \in PathIdx |-> 0]
  /\ runsLeft = 1
  /\ stopsLeft = 0
  /\ InitState

\* ------------------------------------------------- the streaming pipeline
\* streamDirectoriesAtDepth between two sends: the listing yields another
\* directory to send, or is exhausted and the function returns, or the
\* cancellation is seen ("case <-ctx.Done(): return" between directories); on
\* return the deferred close(dirCh) runs.
EnumList(e) ==
  /\ enumPc[e] = "list"
  /\ \/ /\ emitted[e] < dirLimit[e[1]]
        /\ enumPc' = [enumPc EXCEPT ![e] = "send"]
        /\ UNCHANGED <<dirClosed, chanOps>>
     \/ /\ enumPc' = [enumPc EXCEPT ![e] = "done"]
        /\ dirClosed' = [dirClosed EXCEPT ![e] = TRUE]
        /\ chanOps' = [chanOps EXCEPT ![e].dirCh = @ + 1]
  /\ UNCHANGED <<emitted, dirCh, wPc, wDir, wErr, measureFailed, measured, produced, resultCh, resClosed>>

\* streamDirectoriesAtDepth: "case dirCh <- entryPath".
EnumSend(e) ==
  /\ enumPc[e] = "send"
  /\ Len(dirCh[e]) < DirChCap
  /\ dirCh' = [dirCh EXCEPT ![e] = Append(@, emitted[e] + 1)]
  /\ emitted' = [emitted EXCEPT ![e] = @ + 1]
  /\ enumPc' = [enumPc EXCEPT ![e] = "list"]
  /\ chanOps' = [chanOps EXCEPT ![e].late = @ \/ dirClosed[e]]
  /\ UNCHANGED <<dirClosed, wPc, wDir, wErr, measureFailed, measured, produced, resultCh, resClosed>>

\* streamDirectoriesAtDepth: "case <-ctx.Done(): return" of the send, then the
\* deferred close(dirCh).
EnumCancel_noCtxCase(e) ==
  /\ FALSE
  /\ UNCHANGED pipeVars
EnumCancel(e) ==
  /\ enumPc[e] = "send"
  /\ ScanCtxDone(e)
  /\ enumPc' = [enumPc EXCEPT ![e] = "done"]
  /\ dirClosed' = [dirClosed EXCEPT ![e] = TRUE]
  /\ chanOps' = [chanOps EXCEPT ![e].dirCh = @ + 1]
  /\ UNCHANGED <<emitted, dirCh, wPc, wDir, wErr, measureFailed, measured, produced, resultCh, resClosed>>

EnumStep(e) ==
  /\ (EnumList(e) \/ EnumSend(e) \/ EnumCancel(e))
  /\ UNCHANGED <<cfgVars, batchVars, enumVars, stratVars, walkVars, ctxVars, runVars, loopVars, scanners, scanVars, storeVars>>

\* Counters per directory: the count of d, and the counters with one more d.
Count(c, d) == IF d \in DOMAIN c THEN c[d] ELSE 0
Incr(c, d) == [x \in DOMAIN c \cup {d} |-> IF x = d THEN Count(c, d) + 1 ELSE c[x]]

\* Worker: "for dir := range dirCh" receives a directory, which leaves dirCh.
WorkerRecv_noDequeue(e, w) ==
  /\ wPc[e][w] = "recv"
  /\ dirCh[e] # <<>>
  /\ wDir' = [wDir EXCEPT ![e][w] = Head(dirCh[e])]
  /\ dirCh' = dirCh
  /\ wPc' = [wPc EXCEPT ![e][w] = "getsize"]
  /\ UNCHANGED <<enumPc, emitted, dirClosed, wErr, measureFailed, measured, produced, resultCh, resClosed,
                 chanOps>>
WorkerRecv(e, w) ==
  /\ wPc[e][w] = "recv"
  /\ dirCh[e] # <<>>
  /\ wDir' = [wDir EXCEPT ![e][w] = Head(dirCh[e])]
  /\ dirCh' = [dirCh EXCEPT ![e] = Tail(@)]
  /\ wPc' = [wPc EXCEPT ![e][w] = "getsize"]
  /\ UNCHANGED <<enumPc, emitted, dirClosed, wErr, measureFailed, measured, produced, resultCh, resClosed,
                 chanOps>>

\* Worker: dirCh is closed and drained, the range loop ends.
WorkerRangeEnd(e, w) ==
  /\ wPc[e][w] = "recv"
  /\ dirCh[e] = <<>>
  /\ dirClosed[e]
  /\ wPc' = [wPc EXCEPT ![e][w] = "done"]
  /\ UNCHANGED <<enumPc, emitted, dirCh, dirClosed, wDir, wErr, measureFailed, measured, produced, resultCh, resClosed,
                 chanOps>>

\* Worker: strategy.GetSize(ctx, dir) returns a size or an error.
WorkerGetSizeReturn(e, w) ==
  /\ wPc[e][w] = "getsize"
  /\ \E err \in sizeErrs :
       /\ wErr' = [wErr EXCEPT ![e][w] = err]
       /\ measureFailed' = [measureFailed EXCEPT ![e] = IF err THEN @ \cup {wDir[e][w]} ELSE @]
  /\ measured' = [measured EXCEPT ![e] = Incr(@, wDir[e][w])]
  /\ wPc' = [wPc EXCEPT ![e][w] = "send"]
  /\ UNCHANGED <<enumPc, emitted, dirCh, dirClosed, wDir, produced, resultCh, resClosed,
                 chanOps>>

\* Worker: "case resultCh <- Result{...}"; the iteration's locals (dir, size,
\* err) go out of scope.
WorkerSend(e, w) ==
  /\ wPc[e][w] = "send"
  /\ Len(resultCh[e]) < ResultChCap
  /\ resultCh' = [resultCh EXCEPT ![e] = Append(@, [dir |-> wDir[e][w], err |-> wErr[e][w]])]
  /\ wPc' = [wPc EXCEPT ![e][w] = "recv"]
  /\ wDir' = [wDir EXCEPT ![e][w] = 0]
  /\ wErr' = [wErr EXCEPT ![e][w] = FALSE]
  /\ produced' = [produced EXCEPT ![e] = Incr(@, wDir[e][w])]
  /\ chanOps' = [chanOps EXCEPT ![e].late = @ \/ resClosed[e]]
  /\ UNCHANGED <<enumPc, emitted, dirCh, dirClosed, measureFailed, measured, resClosed>>

\* Worker: "case <-ctx.Done(): return"; the deferred wg.Done() runs.
WorkerSendCancel_noWgDone(e, w) ==
  /\ wPc[e][w] = "send"
  /\ ScanCtxDone(e)
  /\ wPc' = [wPc EXCEPT ![e][w] = "returned"]
  /\ wDir' = [wDir EXCEPT ![e][w] = 0]
  /\ wErr' = [wErr EXCEPT ![e][w] = FALSE]
  /\ UNCHANGED <<enumPc, emitted, dirCh, dirClosed, measureFailed, measured, produced, resultCh, resClosed,
                 chanOps>>
WorkerSendCancel(e, w) ==
  /\ wPc[e][w] = "send"
  /\ ScanCtxDone(e)
  /\ wPc' = [wPc EXCEPT ![e][w] = "done"]
  /\ wDir' = [wDir EXCEPT ![e][w] = 0]
  /\ wErr' = [wErr EXCEPT ![e][w] = FALSE]
  /\ UNCHANGED <<enumPc, emitted, dirCh, dirClosed, measureFailed, measured, produced, resultCh, resClosed,
                 chanOps>>

WorkerStep(e, w) ==
  /\ w \in DOMAIN wPc[e]
  /\ \/ WorkerRecv(e, w)
     \/ WorkerRangeEnd(e, w)
     \/ WorkerGetSizeReturn(e, w)
     \/ WorkerSend(e, w)
     \/ WorkerSendCancel(e, w)
  /\ UNCHANGED <<cfgVars, batchVars, enumVars, stratVars, walkVars, ctxVars, runVars, loopVars, scanners, scanVars, storeVars>>

\* The goroutine around the workers: wg.Wait(), then the deferred close(resultCh).
Closer_noWait(e) ==
  /\ enumPc[e] # "none"
  /\ ~resClosed[e]
  /\ resClosed' = [resClosed EXCEPT ![e] = TRUE]
  /\ chanOps' = [chanOps EXCEPT ![e].resultCh = @ + 1]
  /\ UNCHANGED <<enumPc, emitted, dirCh, dirClosed, wPc, wDir, wErr, measureFailed, measured, produced, resultCh>>
  /\ UNCHANGED <<cfgVars, batchVars, enumVars, stratVars, walkVars, ctxVars, runVars, loopVars, scanners, scanVars, storeVars>>
Closer(e) ==
  /\ enumPc[e] # "none"
  /\ ~resClosed[e]
  /\ \A w \in DOMAIN wPc[e] : wPc[e][w] = "done"
  /\ resClosed' = [resClosed EXCEPT ![e] = TRUE]
  /\ chanOps' = [chanOps EXCEPT ![e].resultCh = @ + 1]
  /\ UNCHANGED <<enumPc, emitted, dirCh, dirClosed, wPc, wDir, wErr, measureFailed, measured, produced, resultCh>>
  /\ UNCHANGED <<cfgVars, batchVars, enumVars, stratVars, walkVars, ctxVars, runVars, loopVars, scanners, scanVars, storeVars>>

\* ------------------------------------------------------------- batch mode
\* A Scanner with any worker count whose ScanPathWithOptions is called once
\* on a base path holding up to MaxDirs target-depth directories; the daemon
\* is not run.
InitBatch ==
  /\ NoStrategy
  /\ NoWalk
  /\ NoTree
  /\ sizeErrs = BOOLEAN
  /\ cfg \in [Paths : {<<"/a">>}, Workers : 0..MaxWorkers, Interval : {1}, Intervals : {NoOverride}]
  /\ dirLimit = [p \in PathIdx |-> IF p = 1 THEN MaxDirs ELSE 0]
  /\ ticksLeft = [p \in PathIdx |-> 0]
  /\ runsLeft = 0
  /\ stopsLeft = 0
  /\ InitState

batchRest == <<cfgVars, ctxVars, runVars, loopVars, scanners, scanVars, storeVars, pipeVars, enumVars,
               stratVars, walkVars>>

\* ScanPathWithOptions up to the worker pool: getDirectoriesAtDepth fails
\* (os.Stat), or returns no directory, or returns n directories; then the
\* channels of capacity len(dirs) and s.workers workers.
BatchCall ==
  /\ bPc = "idle"
  /\ \E kind \in {"err", "dirs"} : \E n \in 0..dirLimit[1] :
       CASE kind = "err" ->
            /\ n = 0
            /\ bPc' = "returned"
            /\ bErr' = "stat error"
            /\ UNCHANGED <<bDirs, bwPc, bwDir, bwErr>>
       [] kind = "dirs" /\ n = 0 ->
            /\ bPc' = "returned"
            /\ UNCHANGED <<bErr, bDirs, bwPc, bwDir, bwErr>>
       [] kind = "dirs" /\ n > 0 ->
            /\ bDirs' = n
            /\ bwPc' = [w \in WorkerIds(workers) |-> "recv"]
            /\ bwDir' = [w \in WorkerIds(workers) |-> 0]
            /\ bwErr' = [w \in WorkerIds(workers) |-> FALSE]
            /\ bPc' = "submit"
            /\ UNCHANGED bErr
  /\ bOp' = "ScanPath"
  /\ UNCHANGED <<bCtxDone, bCancelAt, bSent, workCh, workClosed, bResultCh, bResClosed, bResults,
                 bFailed>>
  /\ UNCHANGED batchRest

\* "for _, dir := range dirs { select { case workCh <- dir: ..." : workCh has
\* room for every directory, so the send can always proceed.
BatchSubmit ==
  /\ bPc = "submit"
  /\ bSent < bDirs
  /\ Len(workCh) < bDirs
  /\ workCh' = Append(workCh, bSent + 1)
  /\ bSent' = bSent + 1
  /\ UNCHANGED <<bPc, bCtxDone, bCancelAt, bDirs, workClosed, bwPc, bwDir, bwErr,
                 bResultCh, bResClosed, bResults, bErr>>
  /\ UNCHANGED <<bOp, bFailed>>
  /\ UNCHANGED batchRest

\* "case <-ctx.Done(): close(workCh)" and the start of the goroutine that
\* closes resultCh.  With the context done both cases of the select can
\* proceed and the Go runtime picks either.
BatchSubmitCancel_never ==
  /\ FALSE
  /\ UNCHANGED vars
BatchSubmitCancel ==
  /\ bPc = "submit"
  /\ bSent < bDirs
  /\ bCtxDone
  /\ workClosed' = TRUE
  /\ bPc' = "drain"
  /\ UNCHANGED <<bCtxDone, bCancelAt, bDirs, bSent, workCh, bwPc, bwDir, bwErr,
                 bResultCh, bResClosed, bResults, bErr>>
  /\ UNCHANGED <<bOp, bFailed>>
  /\ UNCHANGED batchRest

\* The range over dirs is exhausted: close(workCh) and the start of the
\* goroutine that closes resultCh.
BatchSubmitEnd ==
  /\ bPc = "submit"
  /\ bSent = bDirs
  /\ workClosed' = TRUE
  /\ bPc' = "collect"
  /\ UNCHANGED <<bCtxDone, bCancelAt, bDirs, bSent, workCh, bwPc, bwDir, bwErr,
                 bResultCh, bResClosed, bResults, bErr>>
  /\ UNCHANGED <<bOp, bFailed>>
  /\ UNCHANGED batchRest

\* Batch worker: "for dir := range workCh", GetSize, "resultCh <- Result{...}"
\* (resultCh has room for every directory).
BatchWorker(w) ==
  /\ w \in DOMAIN bwPc
  /\ \/ /\ bwPc[w] = "recv"
        /\ workCh # <<>>
        /\ bwDir' = [bwDir EXCEPT ![w] = Head(workCh)]
        /\ workCh' = Tail(workCh)
        /\ bwPc' = [bwPc EXCEPT ![w] = "getsize"]
        /\ UNCHANGED <<bwErr, bResultCh, bFailed>>
     \/ /\ bwPc[w] = "recv"
        /\ workCh = <<>>
        /\ workClosed
        /\ bwPc' = [bwPc EXCEPT ![w] = "done"]
        /\ UNCHANGED <<bwDir, bwErr, workCh, bResultCh, bFailed>>
     \/ /\ bwPc[w] = "getsize"
        /\ \E err \in sizeErrs :
             /\ bwErr' = [bwErr EXCEPT ![w] = err]
             /\ bFailed' = IF err THEN bFailed \cup {bwDir[w]} ELSE bFailed
        /\ bwPc' = [bwPc EXCEPT ![w] = "send"]
        /\ UNCHANGED <<bwDir, workCh, bResultCh>>
     \/ /\ bwPc[w] = "send"
        /\ Len(bResultCh) < bDirs
        /\ bResultCh' = Append(bResultCh, [dir |-> bwDir[w], err |-> bwErr[w]])
        /\ bwPc' = [bwPc EXCEPT ![w] = "recv"]
        /\ bwDir' = [bwDir EXCEPT ![w] = 0]
        /\ bwErr' = [bwErr EXCEPT ![w] = FALSE]
        /\ UNCHANGED <<workCh, bFailed>>
  /\ UNCHANGED <<bPc, bCtxDone, bCancelAt, bDirs, bSent, workClosed, bResClosed, bResults, bErr,
                 bOp>>
  /\ UNCHANGED batchRest

\* "go func() { wg.Wait(); close(resultCh) }()".
BatchCloser ==
  /\ bPc \in {"collect", "drain"}
  /\ ~bResClosed
  /\ \A w \in DOMAIN bwPc : bwPc[w] = "done"
  /\ bResClosed' = TRUE
  /\ UNCHANGED <<bPc, bCtxDone, bCancelAt, bDirs, bSent, workCh, workClosed, bwPc, bwDir, bwErr,
                 bResultCh, bResults, bErr>>
  /\ UNCHANGED <<bOp, bFailed>>
  /\ UNCHANGED batchRest

\* "for r := range resultCh { results = append(results, r) }".
BatchCollect ==
  /\ bPc \in {"collect", "drain"}
  /\ bResultCh # <<>>
  /\ bResults' = Append(bResults, Head(bResultCh))
  /\ bResultCh' = Tail(bResultCh)
  /\ UNCHANGED <<bPc, bCtxDone, bCancelAt, bDirs, bSent, workCh, workClosed, bwPc, bwDir, bwErr,
                 bResClosed, bErr>>
  /\ UNCHANGED <<bOp, bFailed>>
  /\ UNCHANGED batchRest

\* The range over resultCh ends when the channel is closed and drained.
BatchRangeEnds_whenEmpty == bResultCh = <<>>
BatchRangeEnds == bResultCh = <<>> /\ bResClosed

\* "return results, ctx.Err()" after the drain, "return results, nil" after
\* the collection.
BatchReturn ==
  /\ bPc \in {"collect", "drain"}
  /\ BatchRangeEnds
  /\ bErr' = IF bPc = "drain" THEN "context canceled" ELSE ""
  /\ bPc' = "returned"
  /\ UNCHANGED <<bCtxDone, bCancelAt, bDirs, bSent, workCh, workClosed, bwPc, bwDir, bwErr,
                 bResultCh, bResClosed, bResults>>
  /\ UNCHANGED <<bOp, bFailed>>
  /\ UNCHANGED batchRest

\* The owner of the context passed to ScanPathWithOptions cancels it.
BatchCtxCancel ==
  /\ ~bCtxDone
  /\ bCtxDone' = TRUE
  /\ bCancelAt' = <<bPc, bSent>>
  /\ UNCHANGED <<bPc, bDirs, bSent, workCh, workClosed, bwPc, bwDir, bwErr,
                 bResultCh, bResClosed, bResults, bErr>>
  /\ UNCHANGED <<bOp, bFailed>>
  /\ UNCHANGED batchRest

\* ScanSingleWithOptions: "size, err := strategy.GetSize(ctx, path)" and
\* "return Result{..., Error: err, ...}, nil".  Directory 0 is the path itself.
ScanSingleErr_propagate(err) == IF err THEN "measure error" ELSE ""
ScanSingleErr(err) == ""

ScanSingleWithOptions ==
  /\ bPc = "idle"
  /\ \E err \in sizeErrs :
       /\ bFailed' = IF err THEN {0} ELSE {}
       /\ bResults' = <<[dir |-> 0, err |-> err]>>
       /\ bErr' = ScanSingleErr(err)
  /\ bOp' = "ScanSingle"
  /\ bPc' = "returned"
  /\ UNCHANGED <<bCtxDone, bCancelAt, bDirs, bSent, workCh, workClosed, bwPc, bwDir, bwErr,
                 bResultCh, bResClosed>>
  /\ UNCHANGED batchRest

NextBatch ==
  \/ BatchCall
  \/ ScanSingleWithOptions
  \/ BatchSubmit
  \/ BatchSubmitCancel
  \/ BatchSubmitEnd
  \/ \E w \in 0..(MaxWorkers + 1) : BatchWorker(w)
  \/ BatchCloser
  \/ BatchCollect
  \/ BatchReturn
  \/ BatchCtxCancel

SpecBatch == InitBatch /\ [][NextBatch]_vars

\* ------------------------------------------------------------ enumeration
Nodes == 1..NumNodes
Base == 1

\* A file system of NumNodes nodes: every node but the base is an entry of a
\* directory with a smaller number, a link resolves to a directory, to a file
\* or to nothing, and at most one directory cannot be listed or stat-ed.
InitNodes ==
  /\ fsKind \in {k \in [Nodes -> {"dir", "file", "link", "missing"}] :
                  /\ k[Base] # "link"
                  /\ \A n \in Nodes \ {Base} : k[n] # "missing"}
  /\ fsParent \in {f \in [Nodes -> 0..(NumNodes - 1)] :
                    /\ f[Base] = 0
                    /\ \A n \in Nodes \ {Base} : f[n] \in 1..(n - 1) /\ fsKind[f[n]] = "dir"}
  /\ fsTarget \in {t \in [Nodes -> 0..NumNodes] :
                    \A n \in Nodes : IF fsKind[n] = "link"
                                      THEN t[n] = 0 \/ fsKind[t[n]] \in {"dir", "file"}
                                      ELSE t[n] = 0}

InitTree ==
  /\ InitNodes
  /\ fsBad \in {0} \cup {n \in Nodes : fsKind[n] = "dir"}
  /\ fsBadKind \in IF fsBad \in {0, Base} THEN {"list"} ELSE {"list", "stat"}
  /\ depth \in 0..MaxDepth
  /\ followSymlinks \in BOOLEAN
  /\ eMode \in {"eager", "stream"}

\* One enumeration of one file system; the daemon is not run.
InitEnum ==
  /\ NoStrategy
  /\ NoWalk
  /\ InitTree
  /\ sizeErrs = BOOLEAN
  /\ cfg \in [Paths : {<<"/a">>}, Workers : {1}, Interval : {1}, Intervals : {NoOverride}]
  /\ dirLimit = [p \in PathIdx |-> 0]
  /\ ticksLeft = [p \in PathIdx |-> 0]
  /\ runsLeft = 0
  /\ stopsLeft = 0
  /\ InitState

enumRest == <<cfgVars, ctxVars, runVars, loopVars, scanners, scanVars, storeVars, pipeVars, batchVars, fsVars,
              stratVars, walkVars>>

\* The node a path name resolves to (os.Stat and os.ReadDir follow links).
Resolve(n) == IF fsKind[n] = "link" THEN fsTarget[n] ELSE n

\* The Filesystem Identity (device, inode) syscall.Stat reports for an entry.
Identity(n) == Resolve(n)

\* os.Stat / syscall.Stat of an entry succeeds.
StatOk(n) == Resolve(n) # 0 /\ ~(fsBad = Resolve(n) /\ fsBadKind = "stat")

\* The elements of a set of nodes in increasing order (os.ReadDir sorts).
RECURSIVE Sorted(_)
Sorted(S) ==
  IF S = {} THEN <<>>
  ELSE LET m == CHOOSE x \in S : \A y \in S : x <= y IN <<m>> \o Sorted(S \ {m})

\* os.ReadDir(dir) for the path dir: the entries of the directory it
\* resolves to; ok is FALSE when the directory cannot be read.
ReadDir(dir) ==
  LET d == Resolve(dir[Len(dir)]) IN
  IF fsBad = d /\ fsBadKind = "list"
  THEN [ok |-> FALSE, entries |-> <<>>]
  ELSE [ok |-> TRUE, entries |-> Sorted({n \in Nodes : fsParent[n] = d})]

\* What the loops do with a directory whose os.ReadDir failed: "continue".
OnReadDirError_fail == "fail"
OnReadDirError == "continue"

\* The symlink branch: opts.FollowSymlinks, os.Stat succeeds, target IsDir.
SymlinkAdmissible_alwaysFollow(c) == StatOk(c) /\ fsKind[Resolve(c)] = "dir"
SymlinkAdmissible(c) == followSymlinks /\ StatOk(c) /\ fsKind[Resolve(c)] = "dir"

\* visitedSet.seen: the identity is already in the set.
AlreadySeen_never(id, v) == FALSE
AlreadySeen(id, v) == id \in v

\* One entry of a listing is appended to the next level (or sent).
Admits_noPlainDirs(c, v) ==
  /\ fsKind[c] = "link" /\ SymlinkAdmissible(c)
  /\ ~AlreadySeen(Identity(c), v)
Admits(c, v) ==
  /\ IF fsKind[c] = "link" THEN SymlinkAdmissible(c) ELSE fsKind[c] = "dir" /\ StatOk(c)
  /\ ~AlreadySeen(Identity(c), v)

\* "for _, entry := range entries": the visited set and the admitted paths
\* after the entries es of the directory at path dir.
RECURSIVE AdmitEntries(_, _, _, _)
AdmitEntries(es, dir, v, acc) ==
  IF es = <<>> THEN [visited |-> v, out |-> acc]
  ELSE LET c == Head(es) IN
       IF Admits(c, v)
       THEN AdmitEntries(Tail(es), dir, v \cup {Identity(c)}, Append(acc, Append(dir, c)))
       ELSE AdmitEntries(Tail(es), dir, v, acc)

\* Number of listing rounds of an enumeration at depth dp: the loop
\* "for d := 0; d < depth; d++" of getDirectoriesAtDepth, and the depth-1
\* intermediate rounds plus the final streamed round of streamDirectoriesAtDepth.
Rounds_offByOne(dp) == dp + 1
Rounds(dp) == dp

\* streamDirectoriesAtDepth: the rounds "for d := 0; d < depth-1; d++" that
\* come before its final, streamed round.
IntermediateRounds_all(dp) == Rounds(dp)
IntermediateRounds(dp) == Rounds(dp) - 1

\* getDirectoriesAtDepth as a function of the file system: one round over
\* the directories of a level, and the rounds one after another.
RECURSIVE ListLevel(_, _, _)
ListLevel(dirs, v, acc) ==
  IF dirs = <<>> THEN [visited |-> v, out |-> acc]
  ELSE LET r == AdmitEntries(ReadDir(Head(dirs)).entries, Head(dirs), v, <<>>)
       IN ListLevel(Tail(dirs), r.visited, acc \o r.out)
RECURSIVE Descend(_, _, _)
Descend(level, v, k) ==
  IF k = 0 THEN level
  ELSE LET r == ListLevel(level, v, <<>>) IN Descend(r.out, r.visited, k - 1)
getDirectoriesAtDepth ==
  IF fsKind[Base] # "dir" THEN <<>>
  ELSE IF depth = 0 THEN <<<<Base>>>>
  ELSE Descend(<<<<Base>>>>, {Identity(Base)}, depth)

\* getDirectoriesAtDepth with opts.FollowSymlinks false, as a function of the
\* file system: the symlink branch of the admission is "continue".
AdmitsNoFollow(c, v) == fsKind[c] = "dir" /\ StatOk(c) /\ ~AlreadySeen(Identity(c), v)
RECURSIVE AdmitEntriesNoFollow(_, _, _, _)
AdmitEntriesNoFollow(es, dir, v, acc) ==
  IF es = <<>> THEN [visited |-> v, out |-> acc]
  ELSE LET c == Head(es) IN
       IF AdmitsNoFollow(c, v)
       THEN AdmitEntriesNoFollow(Tail(es), dir, v \cup {Identity(c)}, Append(acc, Append(dir, c)))
       ELSE AdmitEntriesNoFollow(Tail(es), dir, v, acc)
RECURSIVE ListLevelNoFollow(_, _, _)
ListLevelNoFollow(dirs, v, acc) ==
  IF dirs = <<>> THEN [visited |-> v, out |-> acc]
  ELSE LET r == AdmitEntriesNoFollow(ReadDir(Head(dirs)).entries, Head(dirs), v, <<>>)
       IN ListLevelNoFollow(Tail(dirs), r.visited, acc \o r.out)
RECURSIVE DescendNoFollow(_, _, _)
DescendNoFollow(level, v, k) ==
  IF k = 0 THEN level
  ELSE LET r == ListLevelNoFollow(level, v, <<>>) IN DescendNoFollow(r.out, r.visited, k - 1)
getDirectoriesNoFollow ==
  IF fsKind[Base] # "dir" THEN <<>>
  ELSE IF depth = 0 THEN <<<<Base>>>>
  ELSE DescendNoFollow(<<<<Base>>>>, {Identity(Base)}, depth)

\* Entry of getDirectoriesAtDepth, or of ScanPathStreaming followed by
\* streamDirectoriesAtDepth: os.Stat of the base path, the depth 0 case,
\* and visited.seen(basePath).
EnumStart ==
  /\ ePc = "idle"
  /\ fsKind # <<>>
  /\ IF fsKind[Base] = "missing"
     THEN /\ ePc' = "done"
          /\ eErr' = "stat error"
          /\ UNCHANGED <<currentLevel, visited, yielded, admits>>
     ELSE IF fsKind[Base] # "dir"
     THEN /\ ePc' = "done"
          /\ UNCHANGED <<eErr, currentLevel, visited, yielded, admits>>
     ELSE IF depth = 0
     THEN /\ ePc' = "done"
          /\ \/ yielded' = <<<<Base>>>>
             \/ eMode = "stream" /\ eCtxDone /\ UNCHANGED yielded
          /\ UNCHANGED <<eErr, currentLevel, visited, admits>>
     ELSE /\ ePc' = "level"
          /\ visited' = {Identity(Base)}
          /\ currentLevel' = <<<<Base>>>>
          /\ UNCHANGED <<eErr, yielded, admits>>
  /\ UNCHANGED <<eCtxDone, eD, eIdx, nextLevel>>
  /\ UNCHANGED enumRest

\* One iteration of "for _, dir := range currentLevel": the cancellation
\* check of the streaming enumerator, os.ReadDir, and the loop over the
\* entries.  In the final round of the streaming enumerator the admitted
\* entries are sent on dirCh instead of being appended to nextLevel, and a
\* cancellation that arrives during the sends ends the enumeration after
\* some of them.
EnumDir ==
  LET dir == currentLevel[eIdx + 1]
      rd == ReadDir(dir)
      r == AdmitEntries(rd.entries, dir, visited, <<>>)
      final == eMode = "stream" /\ eD = IntermediateRounds(depth)
  IN
  /\ ePc = "level"
  /\ eIdx < Len(currentLevel)
  /\ IF eMode = "stream" /\ eCtxDone
     THEN /\ ePc' = "done"
          /\ UNCHANGED <<eCtxDone, eIdx, nextLevel, visited, yielded, eErr, admits>>
     ELSE IF ~rd.ok /\ OnReadDirError = "fail"
     THEN /\ ePc' = "done"
          /\ eErr' = "read error"
          /\ UNCHANGED <<eCtxDone, eIdx, nextLevel, visited, yielded, admits>>
     ELSE \/ /\ eIdx' = eIdx + 1
             /\ visited' = r.visited
             /\ admits' = admits \o [i \in 1..Len(r.out) |->
                             [id |-> Identity(r.out[i][Len(r.out[i])]), level |-> eD + 1]]
             /\ IF final
                THEN yielded' = yielded \o r.out /\ UNCHANGED nextLevel
                ELSE nextLevel' = nextLevel \o r.out /\ UNCHANGED yielded
             /\ UNCHANGED <<ePc, eCtxDone, eErr>>
          \/ /\ final
             /\ ~eCtxDone
             /\ \E k \in 1..Len(r.out) :
                  /\ yielded' = yielded \o SubSeq(r.out, 1, k - 1)
                  /\ admits' = admits \o [i \in 1..k |->
                                  [id |-> Identity(r.out[i][Len(r.out[i])]), level |-> eD + 1]]
             /\ eCtxDone' = TRUE
             /\ ePc' = "done"
             /\ UNCHANGED <<eIdx, nextLevel, visited, eErr>>
  /\ UNCHANGED <<eD, currentLevel>>
  /\ UNCHANGED enumRest

\* The range over currentLevel is exhausted: "currentLevel = nextLevel" and
\* the next round, or the return after the last round.
EnumLevelEnd ==
  /\ ePc = "level"
  /\ eIdx = Len(currentLevel)
  /\ IF eMode = "stream" /\ eD = IntermediateRounds(depth)
     THEN /\ ePc' = "done"
          /\ UNCHANGED <<eD, eIdx, currentLevel, nextLevel, yielded>>
     ELSE IF eMode = "eager" /\ eD + 1 = Rounds(depth)
     THEN /\ ePc' = "done"
          /\ yielded' = nextLevel
          /\ eD' = eD + 1
          /\ UNCHANGED <<eIdx, currentLevel, nextLevel>>
     ELSE /\ currentLevel' = nextLevel
          /\ nextLevel' = <<>>
          /\ eIdx' = 0
          /\ eD' = eD + 1
          /\ UNCHANGED <<ePc, yielded>>
  /\ UNCHANGED <<eCtxDone, visited, eErr, admits>>
  /\ UNCHANGED enumRest

\* The scan context of a streaming enumeration is cancelled.
EnumCtxCancel ==
  /\ eMode = "stream"
  /\ ePc # "done"
  /\ ~eCtxDone
  /\ eCtxDone' = TRUE
  /\ UNCHANGED <<ePc, eD, eIdx, currentLevel, nextLevel, visited, yielded, eErr, admits>>
  /\ UNCHANGED enumRest

NextEnum == EnumStart \/ EnumDir \/ EnumLevelEnd \/ EnumCtxCancel

SpecEnum == InitEnum /\ [][NextEnum]_vars

\* Enumerations at depth 1 or more that follow symlinks, of readable file
\* systems in which some link resolves to a directory (to an ancestor: a
\* cycle; to another directory: a second path to it).
InitEnumLinks ==
  /\ InitEnum
  /\ followSymlinks
  /\ depth >= 1
  /\ fsBad = 0
  /\ \E n \in Nodes : fsKind[n] = "link" /\ fsTarget[n] # 0 /\ fsKind[fsTarget[n]] = "dir"

\* The enumerating goroutine is scheduled; nobody is obliged to cancel.
FairSpecEnum == InitEnumLinks /\ [][NextEnum]_vars /\ WF_vars(EnumStart \/ EnumDir \/ EnumLevelEnd)

\* ------------------------------------------------------ strategy selection
\* A scanner with or without a preset strategy, a base path and MaxTargets
\* target directories each on CephFS or not, du resolvable or not.
InitStrategy ==
  /\ NoWalk
  /\ preset \in {"nil", "ceph", "du", "walk", "auto"}
  /\ onCeph \in [0..MaxTargets -> BOOLEAN]
  /\ hasDu \in BOOLEAN
  /\ NoTree
  /\ sizeErrs = BOOLEAN
  /\ cfg \in [Paths : {<<"/a">>}, Workers : {1}, Interval : {1}, Intervals : {NoOverride}]
  /\ dirLimit = [p \in PathIdx |-> 0]
  /\ ticksLeft = [p \in PathIdx |-> 0]
  /\ runsLeft = 0
  /\ stopsLeft = 0
  /\ InitState

stratRest == <<cfgVars, ctxVars, runVars, loopVars, scanners, scanVars, storeVars, pipeVars, batchVars,
               enumVars, walkVars>>

\* isCephFS(path): statfs reports the CephFS magic number.
isCephFS(path) == onCeph[path]

\* DetectStrategy(path, followSymlinks): CephFS, else du if resolvable, else walk.
DetectStrategy_duFirst(path) == IF hasDu THEN "du" ELSE IF isCephFS(path) THEN "ceph" ELSE "walk"
DetectStrategy(path) == IF isCephFS(path) THEN "ceph" ELSE IF hasDu THEN "du" ELSE "walk"

\* AutoStrategy.StrategyFor(path): the same order, on the resolved path,
\* with the du lookup made by NewAutoStrategy.
StrategyFor(path) == IF isCephFS(path) THEN "ceph" ELSE IF hasDu THEN "du" ELSE "walk"

\* ScanPathStreaming / ScanPathWithOptions: "strategy := s.strategy; if
\* strategy == nil { strategy = DetectStrategy(basePath, ...) }".
SelectStrategy ==
  /\ onCeph # <<>>
  /\ scanStrategy = "unset"
  /\ scanStrategy' = IF preset = "nil" THEN DetectStrategy(0) ELSE preset
  /\ UNCHANGED <<preset, onCeph, hasDu, usedStrategy>>
  /\ UNCHANGED stratRest

\* A worker's "strategy.GetSize(ctx, dir)" for the next target directory;
\* AutoStrategy.GetSize delegates to StrategyFor(dir).
MeasureDir ==
  /\ scanStrategy # "unset"
  /\ Len(usedStrategy) < MaxTargets
  /\ usedStrategy' = Append(usedStrategy,
                        IF scanStrategy = "auto" THEN StrategyFor(Len(usedStrategy) + 1)
                        ELSE scanStrategy)
  /\ UNCHANGED <<preset, onCeph, hasDu, scanStrategy>>
  /\ UNCHANGED stratRest

NextStrategy == SelectStrategy \/ MeasureDir

SpecStrategy == InitStrategy /\ [][NextStrategy]_vars

\* ----------------------------------------------------------- walk strategy
\* One WalkStrategy.GetSize call on any entry of a file system of NumNodes
\* nodes, of which up to MaxUnreadable cannot be read.
InitWalk ==
  /\ NoStrategy
  /\ InitNodes
  /\ fsBad = 0
  /\ fsBadKind = "list"
  /\ depth = 0
  /\ followSymlinks = FALSE
  /\ eMode = "eager"
  /\ wkRoot \in Nodes
  /\ wkUnreadable \in {U \in SUBSET Nodes : Cardinality(U) <= MaxUnreadable}
  /\ sizeErrs = BOOLEAN
  /\ cfg \in [Paths : {<<"/a">>}, Workers : {1}, Interval : {1}, Intervals : {NoOverride}]
  /\ dirLimit = [p \in PathIdx |-> 0]
  /\ ticksLeft = [p \in PathIdx |-> 0]
  /\ runsLeft = 0
  /\ stopsLeft = 0
  /\ InitState

walkRest == <<cfgVars, ctxVars, runVars, loopVars, scanners, scanVars, storeVars, pipeVars, batchVars,
              enumVars, stratVars, wkRoot, wkUnreadable>>

\* info.Size() of an entry: distinct powers of two, so that a sum tells
\* which entries were counted.
SizeOf(n) == 2 ^ (n - 1)

\* filepath.EvalSymlinks(path), and the original path when it fails.
ResolvedPath(n) == IF fsKind[n] = "link" /\ fsTarget[n] # 0 THEN fsTarget[n] ELSE n

\* os.Lstat of the walk's root succeeds.
LstatOk(n) == fsKind[n] # "missing"

\* os.ReadDir of a directory of the walk: ok is FALSE, with no entries,
\* when the directory cannot be read.
WalkReadDir(d) ==
  IF d \in wkUnreadable
  THEN [ok |-> FALSE, entries |-> <<>>]
  ELSE [ok |-> TRUE, entries |-> Sorted({n \in Nodes : fsParent[n] = d})]

\* d.IsDir() and d.Info() of an entry; links are not followed.
IsDir(n) == fsKind[n] = "dir"
InfoOk(n) == n \notin wkUnreadable

\* The callback's "if err != nil { return nil }".
OnEntryError_fail == "walk error"
OnEntryError == ""

\* The callback of walkNoFollow for entry n, called with an error or not:
\* the error it returns ("" is nil) and what it adds to totalSize.
WalkFn(n, err) ==
  IF wkCtxDone THEN [ret |-> "context canceled", add |-> 0]
  ELSE IF err THEN [ret |-> OnEntryError, add |-> 0]
  ELSE IF ~IsDir(n) /\ InfoOk(n) THEN [ret |-> "", add |-> SizeOf(n)]
  ELSE [ret |-> "", add |-> 0]

\* GetSize: EvalSymlinks and the start of filepath.WalkDir(resolvedPath, fn):
\* os.Lstat(root), whose error goes to a first call fn(root, nil, err).
WalkGetSize ==
  /\ wkPc = "idle"
  /\ wkRoot # 0
  /\ LET r == ResolvedPath(wkRoot) IN wkTodo' = <<[node |-> r, err |-> ~LstatOk(r)]>>
  /\ wkPc' = "walk"
  /\ UNCHANGED <<wkCtxDone, wkTotal, wkSize, wkErr>>
  /\ UNCHANGED walkRest

\* One call of the callback by filepath.WalkDir and what WalkDir does with
\* its result: a non-nil error ends the walk and walkNoFollow returns
\* "0, err"; a directory is listed, its entries are visited next in order,
\* and a failed os.ReadDir is reported by a second call of the callback.
WalkVisit ==
  /\ wkPc = "walk"
  /\ wkTodo # <<>>
  /\ LET h == Head(wkTodo)
         r == WalkFn(h.node, h.err)
         ls == WalkReadDir(h.node)
     IN IF r.ret # ""
        THEN /\ wkErr' = r.ret
             /\ wkSize' = 0
             /\ wkPc' = "done"
             /\ wkTodo' = <<>>
             /\ UNCHANGED wkTotal
        ELSE /\ wkTotal' = wkTotal + r.add
             /\ wkTodo' = IF h.err \/ ~IsDir(h.node) THEN Tail(wkTodo)
                          ELSE IF ~ls.ok THEN <<[node |-> h.node, err |-> TRUE]>> \o Tail(wkTodo)
                          ELSE [i \in 1..Len(ls.entries) |-> [node |-> ls.entries[i], err |-> FALSE]]
                               \o Tail(wkTodo)
             /\ UNCHANGED <<wkPc, wkSize, wkErr>>
  /\ UNCHANGED wkCtxDone
  /\ UNCHANGED walkRest

\* WalkDir returned nil: "return totalSize, nil".
WalkReturn ==
  /\ wkPc = "walk"
  /\ wkTodo = <<>>
  /\ wkSize' = wkTotal
  /\ wkErr' = ""
  /\ wkPc' = "done"
  /\ UNCHANGED <<wkCtxDone, wkTodo, wkTotal>>
  /\ UNCHANGED walkRest

\* The owner of the context passed to GetSize cancels it.
WalkCtxCancel ==
  /\ wkRoot # 0
  /\ wkPc \in {"idle", "walk"}
  /\ ~wkCtxDone
  /\ wkCtxDone' = TRUE
  /\ UNCHANGED <<wkPc, wkTodo, wkTotal, wkSize, wkErr>>
  /\ UNCHANGED walkRest

NextWalk == WalkGetSize \/ WalkVisit \/ WalkReturn \/ WalkCtxCancel

SpecWalk == InitWalk /\ [][NextWalk]_vars

\* ------------------------------------------------------------ persistence
\* Outcomes of a storage call made with context done/not done: the empty
\* string is a nil error.  database/sql refuses work on a cancelled context;
\* otherwise the call succeeds or fails with an I/O error.
StorageErrs(done) == IF done THEN {"context canceled"} ELSE {"", "io error"}

\* SQLiteStorage.RecordUsageBatch: BeginTx(ctx), the inserts, Commit.
RecordUsageBatchErrs_ignoreCtx(e) == {"", "io error"}
RecordUsageBatchErrs(e) == StorageErrs(ScanCtxDone(e))

\* UsageRecord values runScan builds from the directories of a batch.
Records(e, b) == {[scan |-> e, base |-> Key(e[1]), dir |-> b[i]] : i \in 1..Len(b)}

Entry(op, n, reason, ok) == [op |-> op, n |-> n, reason |-> reason, ok |-> ok]

\* runScan's "d.storage.FailScan(context.Background(), scanID, reason)", after
\* the log entries pre; SQLiteStorage.FailScan sets the status when it succeeds.
FailScan(e, reason, pre) ==
  \E ferr \in StorageErrs(FALSE) :
    /\ callLog' = [callLog EXCEPT ![e] = @ \o pre \o <<Entry("FailScan", 0, reason, ferr = "")>>]
    /\ scanStatus' = [scanStatus EXCEPT ![e] = IF ferr = "" THEN "failed" ELSE @]
    /\ scanReason' = [scanReason EXCEPT ![e] = IF ferr = "" THEN reason ELSE @]
    /\ UNCHANGED scanCount

\* Where runScan continues after a failed flush: it returns (the deferred
\* function runs next).
AfterFlushError_continue(next) == next
AfterFlushError(next) == "defer"

\* flushBatch with the non-empty batch b, and runScan's handling of its error.
Flush_keepBatch(p, b, next) ==
  LET e == Cur(p) IN
  \E err \in RecordUsageBatchErrs(e) :
    IF err = ""
    THEN /\ usage' = usage \cup Records(e, b)
         /\ totalRecords' = [totalRecords EXCEPT ![p] = @ + Len(b)]
         /\ batch' = [batch EXCEPT ![p] = b]
         /\ callLog' = [callLog EXCEPT ![e] = Append(@, Entry("RecordUsageBatch", Len(b), "", TRUE))]
         /\ scanPc' = [scanPc EXCEPT ![p] = next]
         /\ UNCHANGED <<scanStatus, scanReason, scanCount>>
    ELSE /\ FailScan(e, err, <<Entry("RecordUsageBatch", Len(b), err, FALSE)>>)
         /\ batch' = [batch EXCEPT ![p] = b]
         /\ scanPc' = [scanPc EXCEPT ![p] = AfterFlushError(next)]
         /\ UNCHANGED <<usage, totalRecords>>
Flush(p, b, next) ==
  LET e == Cur(p) IN
  \E err \in RecordUsageBatchErrs(e) :
    IF err = ""
    THEN /\ usage' = usage \cup Records(e, b)
         /\ totalRecords' = [totalRecords EXCEPT ![p] = @ + Len(b)]
         /\ batch' = [batch EXCEPT ![p] = <<>>]
         /\ callLog' = [callLog EXCEPT ![e] = Append(@, Entry("RecordUsageBatch", Len(b), "", TRUE))]
         /\ scanPc' = [scanPc EXCEPT ![p] = next]
         /\ UNCHANGED <<scanStatus, scanReason, scanCount>>
    ELSE /\ FailScan(e, err, <<Entry("RecordUsageBatch", Len(b), err, FALSE)>>)
         /\ batch' = [batch EXCEPT ![p] = b]
         /\ scanPc' = [scanPc EXCEPT ![p] = AfterFlushError(next)]
         /\ UNCHANGED <<usage, totalRecords>>

\* ------------------------------------------------------------------ runScan
\* PathConfig.EffectiveInterval: the path's interval if positive, else the default.
EffectiveInterval_ignoreOverride(i, d) == d
EffectiveInterval(i, d) == IF i > 0 THEN i ELSE d

\* runScan: context.WithCancel and the registration under d.mu.  Entered from
\* runPathScanner, after it has made its ticker, for the initial scan, or on
\* "case <-ticker.C".
Register_whileScanning(p) ==
  /\ p \in Paths
  /\ \/ /\ loopPc[p] = "start"
        /\ interval' = [interval EXCEPT ![p] = EffectiveInterval(cfg.Intervals[p], cfg.Interval)]
        /\ UNCHANGED ticksLeft
     \/ /\ loopPc[p] \in {"select", "scan"}
        /\ ticksLeft[p] > 0
        /\ ticksLeft' = [ticksLeft EXCEPT ![p] = @ - 1]
        /\ UNCHANGED interval
  /\ scanNo' = [scanNo EXCEPT ![p] = @ + 1]
  /\ scanners' = [scanners EXCEPT ![Key(p)] = <<p, scanNo[p] + 1>>]
  /\ loopPc' = [loopPc EXCEPT ![p] = "scan"]
  /\ scanPc' = [scanPc EXCEPT ![p] = "startscan"]
  /\ batch' = [batch EXCEPT ![p] = <<>>]
  /\ totalRecords' = [totalRecords EXCEPT ![p] = 0]
  /\ UNCHANGED <<cfgVars, batchVars, enumVars, stratVars, walkVars, ctxVars, runVars, storeVars, pipeVars>>
Register(p) ==
  /\ p \in Paths
  /\ \/ /\ loopPc[p] = "start"
        /\ interval' = [interval EXCEPT ![p] = EffectiveInterval(cfg.Intervals[p], cfg.Interval)]
        /\ UNCHANGED ticksLeft
     \/ /\ loopPc[p] = "select"
        /\ ticksLeft[p] > 0
        /\ ticksLeft' = [ticksLeft EXCEPT ![p] = @ - 1]
        /\ UNCHANGED interval
  /\ scanNo' = [scanNo EXCEPT ![p] = @ + 1]
  /\ scanners' = [scanners EXCEPT ![Key(p)] = <<p, scanNo[p] + 1>>]
  /\ loopPc' = [loopPc EXCEPT ![p] = "scan"]
  /\ scanPc' = [scanPc EXCEPT ![p] = "startscan"]
  /\ batch' = [batch EXCEPT ![p] = <<>>]
  /\ totalRecords' = [totalRecords EXCEPT ![p] = 0]
  /\ UNCHANGED <<cfgVars, batchVars, enumVars, stratVars, walkVars, ctxVars, runVars, storeVars, pipeVars>>

\* runScan: d.storage.StartScan(scanCtx, pathCfg.Path).
StartScan(p) ==
  LET e == Cur(p) IN
  /\ scanPc[p] = "startscan"
  /\ \E err \in StorageErrs(ScanCtxDone(e)) :
       /\ callLog' = [callLog EXCEPT ![e] = Append(@, Entry("StartScan", 0, err, err = ""))]
       /\ scanStatus' = [scanStatus EXCEPT ![e] = IF err = "" THEN "running" ELSE @]
       /\ scanPc' = [scanPc EXCEPT ![p] = IF err = "" THEN "stream" ELSE "defer"]
  /\ UNCHANGED <<scanReason, scanCount, usage, batch, totalRecords>>
  /\ UNCHANGED <<cfgVars, batchVars, enumVars, stratVars, walkVars, ctxVars, runVars, loopVars, scanners, pipeVars>>

\* runScan: d.scanner.ScanPathStreaming(scanCtx, ...): os.Stat of the base
\* path (an error, not a directory, or a directory), then the channels and
\* the goroutines.
StreamStart(p) ==
  LET e == Cur(p) IN
  /\ scanPc[p] = "stream"
  /\ \E kind \in {"err", "notdir", "dir"} :
       CASE kind = "err" ->
            /\ FailScan(e, "stat error", <<>>)
            /\ scanPc' = [scanPc EXCEPT ![p] = "defer"]
            /\ UNCHANGED pipeVars
       [] kind = "notdir" ->
            /\ resClosed' = [resClosed EXCEPT ![e] = TRUE]
            /\ chanOps' = [chanOps EXCEPT ![e].resultCh = @ + 1]
            /\ scanPc' = [scanPc EXCEPT ![p] = "loop"]
            /\ UNCHANGED <<enumPc, emitted, dirCh, dirClosed, wPc, wDir, wErr, measureFailed, measured, produced, resultCh>>
            /\ UNCHANGED <<scanStatus, scanReason, scanCount, callLog>>
       [] kind = "dir" ->
            /\ enumPc' = [enumPc EXCEPT ![e] = "list"]
            /\ wPc' = [wPc EXCEPT ![e] = [w \in WorkerIds(workers) |-> "recv"]]
            /\ wDir' = [wDir EXCEPT ![e] = [w \in WorkerIds(workers) |-> 0]]
            /\ wErr' = [wErr EXCEPT ![e] = [w \in WorkerIds(workers) |-> FALSE]]
            /\ scanPc' = [scanPc EXCEPT ![p] = "loop"]
            /\ UNCHANGED <<emitted, dirCh, dirClosed, measureFailed, measured, produced, resultCh, resClosed,
                           chanOps>>
            /\ UNCHANGED <<scanStatus, scanReason, scanCount, callLog>>
  /\ UNCHANGED <<usage, batch, totalRecords>>
  /\ UNCHANGED <<cfgVars, batchVars, enumVars, stratVars, walkVars, ctxVars, runVars, loopVars, scanners>>

\* runScan: "if r.Error != nil { continue }": only results without error are
\* turned into usage records.
Persistable_all(r) == TRUE
Persistable(r) == ~r.err

\* runScan: "if len(batch) >= batchSize".
BatchFull_offByOne(b) == Len(b) > batchSize
BatchFull(b) == Len(b) >= batchSize

\* runScan: one iteration of "for r := range resultCh", with the flush of a
\* full batch.
Consume(p) ==
  LET e == Cur(p)
      r == Head(resultCh[e])
      b == Append(batch[p], r.dir)
  IN
  /\ scanPc[p] = "loop"
  /\ resultCh[e] # <<>>
  /\ resultCh' = [resultCh EXCEPT ![e] = Tail(@)]
  /\ IF ~Persistable(r)
     THEN UNCHANGED <<scanVars, storeVars>>
     ELSE IF BatchFull(b)
          THEN Flush(p, b, "loop")
          ELSE /\ batch' = [batch EXCEPT ![p] = b]
               /\ UNCHANGED <<scanPc, totalRecords, storeVars>>
  /\ UNCHANGED <<enumPc, emitted, dirCh, dirClosed, wPc, wDir, wErr, measureFailed, measured, produced, resClosed,
                 chanOps>>
  /\ UNCHANGED <<cfgVars, batchVars, enumVars, stratVars, walkVars, ctxVars, runVars, loopVars, scanners>>

\* runScan: resultCh is closed and drained, the range loop ends.
RangeEnd(p) ==
  LET e == Cur(p) IN
  /\ scanPc[p] = "loop"
  /\ resultCh[e] = <<>>
  /\ resClosed[e]
  /\ scanPc' = [scanPc EXCEPT ![p] = "finalflush"]
  /\ UNCHANGED <<batch, totalRecords>>
  /\ UNCHANGED <<cfgVars, batchVars, enumVars, stratVars, walkVars, ctxVars, runVars, loopVars, scanners, storeVars, pipeVars>>

\* runScan: "Flush remaining records".
FinalFlush(p) ==
  /\ scanPc[p] = "finalflush"
  /\ IF batch[p] = <<>>
     THEN /\ scanPc' = [scanPc EXCEPT ![p] = "checkctx"]
          /\ UNCHANGED <<batch, totalRecords, storeVars>>
     ELSE Flush(p, batch[p], "checkctx")
  /\ UNCHANGED <<cfgVars, batchVars, enumVars, stratVars, walkVars, ctxVars, runVars, loopVars, scanners, pipeVars>>

\* runScan: "if scanCtx.Err() != nil".
CheckCancelled_noReturn(p) ==
  LET e == Cur(p) IN
  /\ scanPc[p] = "checkctx"
  /\ IF ScanCtxDone(e)
     THEN /\ FailScan(e, "cancelled", <<>>)
          /\ scanPc' = [scanPc EXCEPT ![p] = "complete"]
     ELSE /\ scanPc' = [scanPc EXCEPT ![p] = "complete"]
          /\ UNCHANGED <<scanStatus, scanReason, scanCount, callLog>>
  /\ UNCHANGED <<usage, batch, totalRecords>>
  /\ UNCHANGED <<cfgVars, batchVars, enumVars, stratVars, walkVars, ctxVars, runVars, loopVars, scanners, pipeVars>>
CheckCancelled(p) ==
  LET e == Cur(p) IN
  /\ scanPc[p] = "checkctx"
  /\ IF ScanCtxDone(e)
     THEN /\ FailScan(e, "cancelled", <<>>)
          /\ scanPc' = [scanPc EXCEPT ![p] = "defer"]
     ELSE /\ scanPc' = [scanPc EXCEPT ![p] = "complete"]
          /\ UNCHANGED <<scanStatus, scanReason, scanCount, callLog>>
  /\ UNCHANGED <<usage, batch, totalRecords>>
  /\ UNCHANGED <<cfgVars, batchVars, enumVars, stratVars, walkVars, ctxVars, runVars, loopVars, scanners, pipeVars>>

\* runScan: d.storage.CompleteScan(scanCtx, scanID, totalRecords).
CompleteScan(p) ==
  LET e == Cur(p) IN
  /\ scanPc[p] = "complete"
  /\ \E err \in StorageErrs(ScanCtxDone(e)) :
       /\ callLog' = [callLog EXCEPT ![e] = Append(@, Entry("CompleteScan", totalRecords[p], err, err = ""))]
       /\ scanStatus' = [scanStatus EXCEPT ![e] = IF err = "" THEN "completed" ELSE @]
       /\ scanCount' = [scanCount EXCEPT ![e] = IF err = "" THEN totalRecords[p] ELSE @]
  /\ scanPc' = [scanPc EXCEPT ![p] = "defer"]
  /\ UNCHANGED <<scanReason, usage, batch, totalRecords>>
  /\ UNCHANGED <<cfgVars, batchVars, enumVars, stratVars, walkVars, ctxVars, runVars, loopVars, scanners, pipeVars>>

\* runPathScanner after runScan has returned: runScan returns no value, the
\* loop goes (back) to its select whatever the outcome of the scan.
AfterScan_exitOnFailure(p) == IF scanStatus[Cur(p)] = "completed" THEN "select" ELSE "exited"
AfterScan(p) == "select"

\* runScan's deferred function: delete(d.scanners, pathCfg.Path); cancel().
\* runScan returns and runPathScanner reaches its select.
Deregister_noDelete(p) ==
  /\ scanPc[p] = "defer"
  /\ SetCancel(ctxCancelled, pathCancelled, [scanCancelled EXCEPT ![Cur(p)] = TRUE])
  /\ scanPc' = [scanPc EXCEPT ![p] = "idle"]
  /\ loopPc' = [loopPc EXCEPT ![p] = AfterScan(p)]
  /\ UNCHANGED <<ticksLeft, interval, scanNo, batch, totalRecords, scanners>>
  /\ UNCHANGED <<cfgVars, batchVars, enumVars, stratVars, walkVars, runVars, storeVars, pipeVars>>
Deregister(p) ==
  /\ scanPc[p] = "defer"
  /\ scanners' = [scanners EXCEPT ![Key(p)] = None]
  /\ SetCancel(ctxCancelled, pathCancelled, [scanCancelled EXCEPT ![Cur(p)] = TRUE])
  /\ scanPc' = [scanPc EXCEPT ![p] = "idle"]
  /\ loopPc' = [loopPc EXCEPT ![p] = AfterScan(p)]
  /\ UNCHANGED <<ticksLeft, interval, scanNo, batch, totalRecords>>
  /\ UNCHANGED <<cfgVars, batchVars, enumVars, stratVars, walkVars, runVars, storeVars, pipeVars>>

\* runPathScanner: "case <-ctx.Done(): return", then wg.Done().
LoopExit(p) ==
  /\ p \in Paths
  /\ loopPc[p] = "select"
  /\ PathCtxDone
  /\ loopPc' = [loopPc EXCEPT ![p] = "exited"]
  /\ UNCHANGED <<ticksLeft, interval, scanNo>>
  /\ UNCHANGED <<cfgVars, batchVars, enumVars, stratVars, walkVars, ctxVars, runVars, scanners, scanVars, storeVars, pipeVars>>

PathStep(p) ==
  \/ Register(p)
  \/ StartScan(p)
  \/ StreamStart(p)
  \/ Consume(p)
  \/ RangeEnd(p)
  \/ FinalFlush(p)
  \/ CheckCancelled(p)
  \/ CompleteScan(p)
  \/ Deregister(p)
  \/ LoopExit(p)

\* ---------------------------------------------------------------------- Run
\* Run up to the shutdown select: the running flag and one runPathScanner
\* goroutine per configured path (with no path configured Run only waits for
\* the context).
AlreadyRunning_never == FALSE
AlreadyRunning == running

RunStart ==
  /\ runsLeft > 0
  /\ ~AlreadyRunning
  /\ runsLeft' = runsLeft - 1
  /\ running' = TRUE
  /\ stopCh' = <<runsLeft, FALSE>>
  /\ doneCh' = <<runsLeft, FALSE>>
  /\ runPc' = IF Len(cfg.Paths) = 0 THEN "waitctx" ELSE "select"
  /\ loopPc' = [p \in PathIdx |-> IF p \in Paths THEN "start" ELSE "none"]
  /\ SetCancel(ctxCancelled, FALSE, scanCancelled)
  /\ UNCHANGED <<ticksLeft, interval, scanNo, stopsLeft, panicked>>
  /\ UNCHANGED <<cfgVars, batchVars, enumVars, stratVars, walkVars, scanners, scanVars, storeVars, pipeVars>>

\* Run: "case <-ctx.Done()" or "case <-d.stopCh" of the shutdown select, then
\* pathCancel().
RunSelectCtx ==
  /\ runPc = "select"
  /\ ctxCancelled \/ stopCh[2]
  /\ SetCancel(ctxCancelled, TRUE, scanCancelled)
  /\ runPc' = "wgwait"
  /\ UNCHANGED <<running, apiVars>>
  /\ UNCHANGED <<cfgVars, batchVars, enumVars, stratVars, walkVars, loopVars, scanners, scanVars, storeVars, pipeVars>>

\* Run: wg.Wait() returns once every runPathScanner goroutine has exited.
WgDone_anyLoop == \E p \in Paths : loopPc[p] = "exited"
WgDone == \A p \in Paths : loopPc[p] = "exited"

RunWgWait ==
  /\ runPc = "wgwait"
  /\ WgDone
  /\ runPc' = "wfs"
  /\ UNCHANGED <<running, apiVars, cfgVars, batchVars, enumVars, stratVars, walkVars, ctxVars, loopVars, scanners, scanVars, storeVars, pipeVars>>

\* waitForScans: the first count; then the poll loop, whose ticker case
\* returns when the registry is empty and whose timeout case cancels every
\* scan left in the registry and returns.
WaitForScans ==
  /\ runPc \in {"wfs", "poll"}
  /\ IF runPc = "wfs"
     THEN /\ runPc' = IF \A k \in Keys : scanners[k] = None THEN "defer" ELSE "poll"
          /\ UNCHANGED ctxVars
     ELSE \/ /\ runPc' = IF \A k \in Keys : scanners[k] = None THEN "defer" ELSE "poll"
             /\ UNCHANGED ctxVars
          \/ /\ SetCancel(ctxCancelled, pathCancelled,
                          [e \in Execs |-> scanCancelled[e] \/ \E k \in Keys : scanners[k] = e])
             /\ runPc' = "defer"
  /\ UNCHANGED <<running, apiVars, cfgVars, batchVars, enumVars, stratVars, walkVars, loopVars, scanners, scanVars, storeVars, pipeVars>>

\* Run returns: the deferred pathCancel(), then running = false and
\* close(d.doneCh).
RunReturn ==
  /\ runPc = "defer"
  /\ SetCancel(ctxCancelled, pathCancelled \/ Len(cfg.Paths) > 0, scanCancelled)
  /\ running' = FALSE
  /\ doneCh' = <<doneCh[1], TRUE>>
  /\ runPc' = "returned"
  /\ UNCHANGED <<stopCh, runsLeft, stopsLeft, panicked>>
  /\ UNCHANGED <<cfgVars, batchVars, enumVars, stratVars, walkVars, loopVars, scanners, scanVars, storeVars, pipeVars>>

RunStep == RunStart \/ RunSelectCtx \/ RunWgWait \/ WaitForScans \/ RunReturn

\* Run called while the daemon is running: "if d.running { return nil }".
RunAgain ==
  /\ runsLeft > 0
  /\ AlreadyRunning
  /\ runsLeft' = runsLeft - 1
  /\ UNCHANGED <<running, runPc, stopCh, doneCh, stopsLeft, panicked>>
  /\ UNCHANGED <<cfgVars, batchVars, enumVars, stratVars, walkVars, ctxVars, loopVars, scanners, scanVars, storeVars, pipeVars>>

\* Run with no path configured: "<-ctx.Done(); return ctx.Err()".
RunWaitCtx ==
  /\ runPc = "waitctx"
  /\ ctxCancelled
  /\ runPc' = "defer"
  /\ UNCHANGED <<running, apiVars>>
  /\ UNCHANGED <<cfgVars, batchVars, enumVars, stratVars, walkVars, ctxVars, loopVars, scanners, scanVars, storeVars, pipeVars>>

\* Stop: "if d.running && d.stopCh != nil".
StopApplies_noRunningCheck == stopCh # None
StopApplies == running /\ stopCh # None

\* Stop: "if d.running && d.stopCh != nil { close(d.stopCh) }"; closing a
\* closed channel panics.
Stop ==
  /\ stopsLeft > 0
  /\ stopsLeft' = stopsLeft - 1
  /\ IF StopApplies
     THEN IF stopCh[2]
          THEN panicked' = TRUE /\ UNCHANGED stopCh
          ELSE stopCh' = <<stopCh[1], TRUE>> /\ UNCHANGED panicked
     ELSE UNCHANGED <<stopCh, panicked>>
  /\ UNCHANGED <<running, runPc, doneCh, runsLeft>>
  /\ UNCHANGED <<cfgVars, batchVars, enumVars, stratVars, walkVars, ctxVars, loopVars, scanners, scanVars, storeVars, pipeVars>>

\* The owner of the context passed to Run cancels it (runServe on a signal).
CtxCancel ==
  /\ ~ctxCancelled
  /\ SetCancel(TRUE, pathCancelled, scanCancelled)
  /\ UNCHANGED <<cfgVars, batchVars, enumVars, stratVars, walkVars, runVars, loopVars, scanners, scanVars, storeVars, pipeVars>>

Next ==
  \/ RunStep
  \/ CtxCancel
  \/ \E p \in PathIdx : PathStep(p)
  \/ \E e \in Execs : EnumStep(e)
  \/ \E e \in Execs : \E w \in 0..(MaxWorkers + 1) : WorkerStep(e, w)
  \/ \E e \in Execs : Closer(e)

Spec == Init /\ [][Next]_vars

SpecDaemon == InitDaemon /\ [][Next]_vars

\* The daemon with callers that also call Stop and call Run again.
NextApi == Next \/ RunAgain \/ RunWaitCtx \/ Stop

SpecApi == InitApi /\ [][NextApi]_vars

SpecTicks == InitTicks /\ [][Next]_vars

\* Fair scheduling: every goroutine that can take a step eventually takes one,
\* every storage call and every strategy invocation returns.  The owner of
\* the context is not obliged to cancel it.
Fairness ==
  /\ WF_vars(RunStep)
  /\ \A p \in PathIdx : WF_vars(PathStep(p))
  /\ \A e \in Execs : WF_vars(EnumStep(e)) /\ WF_vars(Closer(e))
  /\ \A e \in Execs : \A w \in 0..(MaxWorkers + 1) : WF_vars(WorkerStep(e, w))

FairSpec == Init /\ [][Next]_vars /\ Fairness

\* Fair scheduling of the goroutines; the callers are obliged neither to call
\* Stop or Run again nor to cancel the context.
RunStepStarted == RunSelectCtx \/ RunWgWait \/ WaitForScans \/ RunReturn \/ RunWaitCtx

FairnessApi ==
  /\ WF_vars(RunStepStarted)
  /\ \A p \in PathIdx : WF_vars(PathStep(p))
  /\ \A e \in Execs : WF_vars(EnumStep(e)) /\ WF_vars(Closer(e))
  /\ \A e \in Execs : \A w \in 0..(MaxWorkers + 1) : WF_vars(WorkerStep(e, w))

FairSpecApi == InitApi /\ [][NextApi]_vars /\ FairnessApi

\* The only execution of a run with one path and no tick.
FirstExec == <<1, 1>>

\* Fair scheduling of the goroutines of ScanPathStreaming only, for the first
\* execution with one worker: the consumer of resultCh (runScan) and Run may
\* stop at any point.
FairnessPipe ==
  /\ WF_vars(EnumStep(FirstExec))
  /\ WF_vars(Closer(FirstExec))
  /\ \A w \in WorkerIds(1) : WF_vars(WorkerStep(FirstExec, w))

FairSpecPipe == InitPipe /\ [][Next]_vars /\ FairnessPipe

\* As Fairness, but a strategy invocation need not return: a worker is only
\* obliged to take the steps that are not the return of GetSize.
WorkerStepButGetSize(e, w) ==
  /\ w \in DOMAIN wPc[e]
  /\ \/ WorkerRecv(e, w)
     \/ WorkerRangeEnd(e, w)
     \/ WorkerSend(e, w)
     \/ WorkerSendCancel(e, w)
  /\ UNCHANGED <<cfgVars, batchVars, enumVars, stratVars, walkVars, ctxVars, runVars, loopVars, scanners, scanVars, storeVars>>

FairnessButGetSize ==
  /\ WF_vars(RunStep)
  /\ \A p \in PathIdx : WF_vars(PathStep(p))
  /\ \A e \in Execs : WF_vars(EnumStep(e)) /\ WF_vars(Closer(e))
  /\ \A e \in Execs : \A w \in 0..(MaxWorkers + 1) : WF_vars(WorkerStepButGetSize(e, w))

FairSpecHang == Init /\ [][Next]_vars /\ FairnessButGetSize

\* ------------------------------------------------------------------ claims
InFlight(e) == Cardinality({w \in DOMAIN wPc[e] : wPc[e][w] = "getsize"})

\* C1: during a streaming scan with worker count W (the configured count
\* coerced to at least 1), at most W GetSize invocations of that scan are in
\* progress at any instant.
C1_ConcurrencyBound == \A e \in Execs : InFlight(e) <= New(cfg.Workers)

C1_Witness == \E e \in Execs : cfg.Workers = 2 /\ InFlight(e) = 2

LogIdx(e) == 1..Len(callLog[e])
FailedFlushes(e) == {i \in LogIdx(e) : callLog[e][i].op = "RecordUsageBatch" /\ ~callLog[e][i].ok}
RECURSIVE Flushed(_, _)
\* Records written by the successful RecordUsageBatch calls among the first i calls.
Flushed(e, i) ==
  IF i = 0 THEN 0
  ELSE Flushed(e, i - 1) +
       (IF callLog[e][i].op = "RecordUsageBatch" /\ callLog[e][i].ok THEN callLog[e][i].n ELSE 0)

\* C2 as stated: if a RecordUsageBatch flush fails, the Scan Record is marked
\* failed with that error (once runScan has returned), the records of the
\* batches flushed earlier remain persisted, and no further RecordUsageBatch
\* call and no CompleteScan call is made for that scan.
C2_FlushFailureAsStated ==
  \A e \in Execs : \A i \in FailedFlushes(e) :
    /\ Ended(e) => scanStatus[e] = "failed" /\ scanReason[e] = callLog[e][i].reason
    /\ Cardinality(UsageOf(e)) = Flushed(e, i)
    /\ \A j \in LogIdx(e) : j > i => callLog[e][j].op = "FailScan"

\* C2 amended: if a RecordUsageBatch flush fails, runScan calls FailScan once
\* with that error and makes no other storage call for that scan; the Scan
\* Record is marked failed with that error provided the FailScan call itself
\* succeeds (otherwise it stays running); the records of the batches flushed
\* earlier remain persisted.
C2_FlushFailure ==
  \A e \in Execs : \A i \in FailedFlushes(e) :
    /\ Ended(e) =>
         /\ Len(callLog[e]) = i + 1
         /\ callLog[e][i + 1].op = "FailScan"
         /\ callLog[e][i + 1].reason = callLog[e][i].reason
         /\ IF callLog[e][i + 1].ok
            THEN scanStatus[e] = "failed" /\ scanReason[e] = callLog[e][i].reason
            ELSE scanStatus[e] = "running"
    /\ Cardinality(UsageOf(e)) = Flushed(e, i)
    /\ \A j \in LogIdx(e) : j > i => callLog[e][j].op = "FailScan"

\* A scan whose second batch failed to write after the first one was flushed.
C2_Witness ==
  \E e \in Execs : \E i \in FailedFlushes(e) :
    /\ Ended(e)
    /\ Flushed(e, i) = batchSize
    /\ callLog[e][i].reason = "io error"
    /\ scanStatus[e] = "failed"

\* The scan's context was cancelled while runScan was in its result loop:
\* after the Scan Record was opened and the pipeline started, before the end of
\* the result channel was seen.
CancelledMidScan(e) == cancelAt[e] # None /\ cancelAt[e][1] = "loop"

\* C3: when a scan's context is cancelled after its Scan Record was opened and
\* before the scan completes naturally (here: while runScan is in its result
\* loop), runScan marks the Scan Record failed with reason exactly
\* "cancelled": it makes a FailScan call, every FailScan call carries the
\* reason "cancelled", and it makes no CompleteScan call, whatever number of
\* un-flushed records was held at the cancellation.
C3_CancelledReason ==
  \A e \in Execs :
    (Ended(e) /\ CancelledMidScan(e)) =>
      /\ \E i \in LogIdx(e) : callLog[e][i].op = "FailScan"
      /\ \A i \in LogIdx(e) :
           /\ callLog[e][i].op = "FailScan" => callLog[e][i].reason = "cancelled"
           /\ callLog[e][i].op # "CompleteScan"

\* C4: the usage records of a scan do not change once the scan's context is
\* cancelled, and no record is ever removed: when a cancelled scan ends, its
\* persisted records are exactly those of the batches flushed before the
\* cancellation.
C4_CancelKeepsFlushed ==
  [][\A e \in Execs :
       /\ UsageOf(e) \subseteq UsageOf(e)'
       /\ ScanCtxDone(e) => UsageOf(e)' = UsageOf(e)]_vars

\* A scan cancelled in its result loop after a batch was flushed, now ended.
C4_Witness ==
  \E e \in Execs :
    /\ Ended(e)
    /\ CancelledMidScan(e)
    /\ Cardinality(UsageOf(e)) = batchSize

\* The scan's context was not cancelled before runScan reached its deferred
\* function.
NotCancelled(e) == cancelAt[e] = None \/ cancelAt[e][1] = "defer"
NoPersistenceError(e) == \A i \in LogIdx(e) : callLog[e][i].op # "FailScan" /\ callLog[e][i].ok

\* C5: for a scan that is not cancelled and meets no persistence error, if k of
\* the N target-depth directories fail measurement, exactly the N-k others are
\* persisted and the Scan Record is completed with directory count N-k.
C5_PartialFailure ==
  \A e \in Execs :
    (Ended(e) /\ NotCancelled(e) /\ NoPersistenceError(e)) =>
      /\ scanStatus[e] = "completed"
      /\ scanCount[e] = Cardinality(TargetDirs(e)) - Cardinality(measureFailed[e])
      /\ Cardinality(UsageOf(e)) = Cardinality(TargetDirs(e)) - Cardinality(measureFailed[e])
      /\ UsageOf(e) = {[scan |-> e, base |-> Key(e[1]), dir |-> d] : d \in TargetDirs(e) \ measureFailed[e]}

C5_Witness ==
  \E e \in Execs :
    /\ Ended(e) /\ NotCancelled(e) /\ NoPersistenceError(e)
    /\ Cardinality(measureFailed[e]) = 1
    /\ scanStatus[e] = "completed"
    /\ scanCount[e] = batchSize

\* C6: whatever the outcome of a scan execution, once runScan has returned the
\* registry does not contain the entry that this execution registered.
C6_Deregistered == \A e \in Execs : Ended(e) => \A k \in Keys : scanners[k] # e

\* Two executions have ended, one completed and one without a scan record
\* (StartScan failed), while a third one is registered.
C6_Witness ==
  \E e1, e2 \in Execs :
    /\ Ended(e1) /\ scanStatus[e1] = "completed"
    /\ Ended(e2) /\ scanStatus[e2] = "none"
    /\ \E k \in Keys : scanners[k] # None

\* C7: at every instant the registry holds an entry for a path key iff a scan
\* of a monitored path with that key is executing (registered and not yet
\* removed), and the stored handle is the one of such an executing scan.
C7_RegistryMatchesExecuting ==
  \A k \in Keys :
    /\ scanners[k] # None <=> \E e \in Execs : Executing(e) /\ Key(e[1]) = k
    /\ scanners[k] # None => Executing(scanners[k]) /\ Key(scanners[k][1]) = k

Started == runPc \notin {"idle", "waitctx"}
PipelineDone(e) ==
  enumPc[e] # "none" =>
    /\ enumPc[e] = "done"
    /\ \A w \in DOMAIN wPc[e] : wPc[e][w] = "done"
    /\ resClosed[e]
Quiet ==
  /\ runPc = "returned"
  /\ \A p \in Paths : loopPc[p] = "exited" /\ scanPc[p] = "idle"
  /\ \A e \in Execs : PipelineDone(e)

\* C8: under fair scheduling, with every storage call and strategy invocation
\* returning, once the context passed to a running Run is cancelled, Run
\* eventually returns, every path loop has exited, every scan has ended and
\* every enumerator, worker and closer goroutine has terminated.
C8_ShutdownTerminates == (Started /\ ctxCancelled) ~> Quiet

\* Run has returned after cancelling a scan in its result loop.
C8_Witness ==
  /\ Quiet
  /\ ctxCancelled
  /\ \E e \in Execs : CancelledMidScan(e) /\ cancelAt[e][2] = 1

\* C9: after the context is cancelled, Run returns even if a strategy
\* invocation of an in-flight scan never returns.
C9_ShutdownBounded == (Started /\ ctxCancelled) ~> (runPc = "returned")

\* C10: when Run has returned after a shutdown, every path loop has exited, no
\* scan execution is running and the registry is empty.
C10_QuietAfterRun ==
  runPc = "returned" =>
    /\ \A p \in Paths : loopPc[p] = "exited" /\ scanPc[p] = "idle"
    /\ \A e \in Execs : ~Executing(e)
    /\ \A k \in Keys : scanners[k] = None

\* Run has returned after a shutdown that interrupted the scans of two paths.
C10_Witness ==
  /\ runPc = "returned"
  /\ \E e1, e2 \in Execs : e1[1] # e2[1] /\ CancelledMidScan(e1) /\ CancelledMidScan(e2)

StopRequested == running /\ stopCh # None /\ stopCh[2]

\* C11: for every configuration (any number of monitored paths, including
\* none), after Stop is called on a running daemon, Run eventually returns
\* without the context having to be cancelled (unless the process has died of
\* a panic).
C11_StopReturns == StopRequested ~> (runPc = "returned" \/ panicked)

\* C12: a call of Run on a daemon that is already running returns at once:
\* it starts no path loop and no scan and leaves the running flag, the stop
\* channel, the done channel, the registry and the running instance as they
\* are.
C12_RunAgainNoop ==
  [][(running /\ runsLeft' # runsLeft) =>
       UNCHANGED <<running, runPc, stopCh, doneCh, scanners, loopVars, scanVars,
                   ctxVars, storeVars, pipeVars>>]_vars

\* Run was called again since the running instance started, and that instance
\* has a scan in progress.
C12_Witness ==
  /\ running
  /\ runsLeft < stopCh[1] - 1
  /\ \E e \in Execs : Executing(e) /\ scanStatus[e] = "running"

\* C13: a call of Stop on a daemon that is not running (never started, or
\* fully stopped) neither panics nor changes any daemon state, and a Run that
\* starts afterwards has an open stop channel and proceeds to its path loops
\* (or, with no path, to its wait) instead of shutting down at once.
C13_StopIdleNoop ==
  [][/\ (~running /\ stopsLeft' # stopsLeft) =>
          UNCHANGED <<running, runPc, stopCh, doneCh, panicked, scanners, loopVars,
                      scanVars, ctxVars, storeVars, pipeVars>>
     /\ (~running /\ running') =>
          /\ stopCh' # None /\ ~stopCh'[2]
          /\ runPc' \in {"select", "waitctx"}]_vars

\* Stop was called before the first Run; that Run is now scanning with its
\* stop channel open.
C13_Witness ==
  /\ running /\ ~panicked
  /\ runsLeft = MaxRuns - 1
  /\ stopsLeft < MaxStops
  /\ ~stopCh[2]
  /\ \E e \in Execs : Executing(e) /\ scanStatus[e] = "running"

Opened(e) == \E i \in LogIdx(e) : callLog[e][i].op = "StartScan" /\ callLog[e][i].ok
FailScanRefused(e) == \E i \in LogIdx(e) : callLog[e][i].op = "FailScan" /\ ~callLog[e][i].ok

\* C14: every Scan Record opened by StartScan has left the running state (is
\* completed or failed) when its scan execution has ended, for every outcome
\* including a failed batch write and a failed CompleteScan, provided no
\* FailScan call of the execution failed.
C14_NoRunningLeft ==
  \A e \in Execs :
    (Ended(e) /\ Opened(e) /\ ~FailScanRefused(e)) => scanStatus[e] \in {"completed", "failed"}

\* The step in which the scan of path p ends.
ScanEnds(p) == scanPc[p] = "defer" /\ scanPc'[p] = "idle"

\* C15: a scan execution that ends, whatever its outcome, terminates only
\* itself: its path loop is back at its select (where the next tick starts a
\* new scan), a path loop exits only once shutdown has been signalled, and the
\* step cancels neither the shared contexts nor the scan of another monitored
\* path and moves no other path loop.
C15_FailureIsLocal ==
  /\ [](\A p \in Paths : loopPc[p] = "exited" => PathCtxDone)
  /\ [][\A p \in Paths : ScanEnds(p) =>
          /\ loopPc'[p] = "select"
          /\ ctxCancelled' = ctxCancelled /\ pathCancelled' = pathCancelled
          /\ \A q \in Paths \ {p} :
               /\ loopPc'[q] = loopPc[q] /\ scanPc'[q] = scanPc[q]
               /\ \A e \in Execs : e[1] = q => scanCancelled'[e] = scanCancelled[e]]_vars

\* The first scan of a path failed, its loop has started the next scan on a
\* tick, and the scan of another path is still executing, neither cancelled.
C15_Witness ==
  \E p, q \in Paths :
    /\ p # q
    /\ scanStatus[<<p, 1>>] = "failed"
    /\ Executing(<<p, 2>>) /\ cancelAt[<<p, 2>>] = None
    /\ Executing(<<q, 1>>) /\ cancelAt[<<q, 1>>] = None /\ scanStatus[<<q, 1>>] = "running"

\* C16: every path loop starts its first scan without consuming a tick, and
\* is never at its select before that scan; every later scan is started from
\* the select by one tick of the loop's ticker, whose interval is the path's
\* own interval if positive and scan.interval otherwise.
C16_FirstScanImmediate ==
  /\ [](\A p \in Paths : loopPc[p] \in {"select", "exited"} => scanNo[p] >= 1)
  /\ [][\A p \in Paths : scanNo'[p] # scanNo[p] =>
          /\ interval'[p] = (IF cfg.Intervals[p] > 0 THEN cfg.Intervals[p] ELSE cfg.Interval)
          /\ IF scanNo[p] = 0
             THEN loopPc[p] = "start" /\ ticksLeft'[p] = ticksLeft[p]
             ELSE loopPc[p] = "select" /\ ticksLeft'[p] = ticksLeft[p] - 1]_vars

\* A path with its own interval has run its first scan to completion and
\* started a second one on a tick.
C16_Witness ==
  \E p \in Paths :
    /\ cfg.Intervals[p] = MaxInterval /\ cfg.Interval # MaxInterval
    /\ interval[p] = MaxInterval
    /\ scanStatus[<<p, 1>>] = "completed"
    /\ Executing(<<p, 2>>)
    /\ ticksLeft[p] = MaxTicks - 1

\* C17: in a streaming scan every directory the enumerator emitted is
\* measured at most once and yields at most one result on the result channel,
\* results exist only for emitted directories, and when the result channel is
\* closed while the scan context is not cancelled (the consumer has drained
\* whatever filled the channel) every emitted directory was measured once and
\* has yielded exactly one result.
C17_OneResultPerDir ==
  \A e \in Execs :
    /\ DOMAIN measured[e] \subseteq TargetDirs(e)
    /\ DOMAIN produced[e] \subseteq DOMAIN measured[e]
    /\ \A d \in TargetDirs(e) : Count(measured[e], d) <= 1 /\ Count(produced[e], d) <= 1
    /\ (resClosed[e] /\ enumPc[e] # "none" /\ ~ScanCtxDone(e)) =>
         \A d \in TargetDirs(e) : Count(measured[e], d) = 1 /\ Count(produced[e], d) = 1

\* Two workers have emptied a listing of MaxDirs directories, the channel is
\* closed, the scan is not cancelled and the consumer has taken every result.
C17_Witness ==
  \E e \in Execs :
    /\ cfg.Workers = 2
    /\ emitted[e] = MaxDirs
    /\ resClosed[e] /\ resultCh[e] = <<>>
    /\ ~ScanCtxDone(e)
    /\ \A d \in TargetDirs(e) : Count(produced[e], d) = 1

\* C18: under fair scheduling of the goroutines of ScanPathStreaming alone
\* (the consumer may have stopped reading), once the scan context of a
\* started pipeline is cancelled, the enumerator has returned, every worker
\* has returned and the closer has closed the result channel, eventually.
C18_CancelUnblocks ==
  (enumPc[FirstExec] # "none" /\ ScanCtxDone(FirstExec)) ~> PipelineDone(FirstExec)

\* The scan context is cancelled while the enumerator is blocked on a full
\* dirCh and the worker on a full resultCh.
C18_Witness ==
  \E e \in Execs :
    /\ ScanCtxDone(e)
    /\ enumPc[e] = "send" /\ Len(dirCh[e]) = DirChCap
    /\ \E w \in DOMAIN wPc[e] : wPc[e][w] = "send"
    /\ Len(resultCh[e]) = ResultChCap

\* The scan context is cancelled while the worker waits on an empty dirCh.
C18_WitnessEmpty ==
  \E e \in Execs :
    /\ ScanCtxDone(e)
    /\ enumPc[e] = "send" /\ dirCh[e] = <<>>
    /\ \A w \in DOMAIN wPc[e] : wPc[e][w] = "recv"

\* Directories of the results the batch call holds, counted per directory.
RECURSIVE CountsOf(_)
CountsOf(rs) == IF rs = <<>> THEN <<>> ELSE Incr(CountsOf(Tail(rs)), Head(rs).dir)

\* C19: a batch-mode call whose enumeration returned directories and whose
\* context is not cancelled has, when it has returned, a nil error, every
\* worker finished, and exactly one result for each enumerated directory.
C19_BatchComplete ==
  (bPc = "returned" /\ bDirs > 0 /\ ~bCtxDone) =>
    /\ bErr = ""
    /\ \A w \in DOMAIN bwPc : bwPc[w] = "done"
    /\ Len(bResults) = bDirs
    /\ \A d \in 1..bDirs : Count(CountsOf(bResults), d) = 1

\* Two workers have measured MaxDirs directories, one with an error, and the
\* call has returned with the context not cancelled.
C19_Witness ==
  /\ bPc = "returned" /\ ~bCtxDone
  /\ workers = 2
  /\ bDirs = MaxDirs
  /\ Len(bResults) = MaxDirs
  /\ \E i \in 1..Len(bResults) : bResults[i].err

\* C20: once the context of a batch-mode call is cancelled during the
\* submission, no further directory is sent to the workers, and the call
\* returns the cancellation error with exactly the results of the
\* directories sent before.
CancelledMidSubmission ==
  bCancelAt # None /\ bCancelAt[1] = "submit" /\ bCancelAt[2] < bDirs
C20_CancelStopsSubmission ==
  /\ [][(bCtxDone /\ bPc = "submit") => bSent' = bSent]_vars
  /\ []((bPc = "returned" /\ CancelledMidSubmission) =>
          /\ bErr = "context canceled"
          /\ Len(bResults) = bSent
          /\ \A d \in 1..bSent : Count(CountsOf(bResults), d) = 1)

\* Hop distance of a node from the base path, and the path that leads to it.
RECURSIVE Hops(_)
Hops(n) == IF n = Base THEN 0 ELSE 1 + Hops(fsParent[n])
RECURSIVE PathTo(_)
PathTo(n) == IF n = Base THEN <<Base>> ELSE Append(PathTo(fsParent[n]), n)
SymlinkFree == \A n \in Nodes : fsKind[n] # "link"
Readable == fsBad = 0
Range(q) == {q[i] : i \in 1..Len(q)}
EnumDone == fsKind # <<>> /\ ePc = "done" /\ ~eCtxDone

NoIdentityTwice ==
  /\ \A i, j \in 1..Len(admits) : admits[i].id = admits[j].id => i = j
  /\ \A i \in 1..Len(admits) : admits[i].id # Identity(Base)
  /\ \A i, j \in 1..Len(yielded) :
       Identity(yielded[i][Len(yielded[i])]) = Identity(yielded[j][Len(yielded[j])]) => i = j
C22_NoIdentityTwice == <>(ePc = "done") /\ []NoIdentityTwice

\* With follow-symlinks enabled an enumeration at depth 2 or more has
\* finished on a tree where a link inside a directory leads back to the base
\* path and another link resolves to a directory that was admitted itself.
C22_Witness ==
  /\ EnumDone /\ followSymlinks /\ depth >= 2
  /\ \E n \in Nodes : fsKind[n] = "link" /\ fsTarget[n] = Base /\ fsParent[n] # Base
  /\ \E n \in Nodes : /\ fsKind[n] = "link" /\ fsTarget[n] # Base /\ fsTarget[n] # 0
                       /\ \E i \in 1..Len(admits) : admits[i].id = fsTarget[n]
  /\ admits # <<>>

\* The admission rule as the specification words it, for the children of
\* the directory at path dir: a directory, or with follow-symlinks a link
\* whose resolved target is a directory, whose identity was not visited
\* before the listing nor through an earlier entry of the same listing.
Eligible(c) ==
  \/ fsKind[c] = "dir"
  \/ fsKind[c] = "link" /\ followSymlinks /\ fsTarget[c] # 0 /\ fsKind[fsTarget[c]] = "dir"
Unstatable(c) == fsBad # 0 /\ fsBad = Resolve(c) /\ fsBadKind = "stat"
Children(dir) == {n \in Nodes : fsParent[n] = Resolve(dir[Len(dir)])}
ShouldAdmit(c, dir) ==
  /\ Eligible(c)
  /\ Identity(c) \notin visited
  /\ ~\E c2 \in Children(dir) :
        c2 < c /\ Eligible(c2) /\ ~Unstatable(c2) /\ Identity(c2) = Identity(c)
Listed == ePc = "level" /\ eIdx' = eIdx + 1 /\ ReadDir(currentLevel[eIdx + 1]).ok
NewlyAdmitted ==
  {(nextLevel')[i] : i \in (Len(nextLevel) + 1)..Len(nextLevel')}
    \cup {(yielded')[i] : i \in (Len(yielded) + 1)..Len(yielded')}
LinkOnPath(q) == \E i \in 1..Len(q) : fsKind[q[i]] = "link"

\* C23: in every listing of a directory of the current level, a child that
\* can be stat-ed is admitted (appended to the next level or sent) if and
\* only if the admission rule holds for it; with follow-symlinks disabled
\* no path of any level or of the result goes through a symlink.
C23_AdmissionRule ==
  /\ [][Listed =>
         \A c \in Children(currentLevel[eIdx + 1]) :
           ~Unstatable(c) =>
             (Append(currentLevel[eIdx + 1], c) \in NewlyAdmitted
                <=> ShouldAdmit(c, currentLevel[eIdx + 1]))]_vars
  /\ [](~followSymlinks =>
          \A q \in Range(currentLevel) \cup Range(nextLevel) \cup Range(yielded) : ~LinkOnPath(q))

\* With follow-symlinks enabled an enumeration at depth 1 has yielded a
\* path that ends in a link, has left out the directory the link resolves
\* to, which is listed after the link, and has left out a broken link.
C23_Witness ==
  /\ EnumDone /\ followSymlinks /\ depth = 1
  /\ \E i \in 1..Len(yielded) : \E n \in Nodes :
       /\ fsKind[yielded[i][2]] = "link"
       /\ fsTarget[yielded[i][2]] = n
       /\ fsParent[n] = Base
       /\ <<Base, n>> \notin Range(yielded)
  /\ \E n \in Nodes : fsKind[n] = "link" /\ fsTarget[n] = 0 /\ fsParent[n] = Base

\* Directories every strict ancestor of which can be listed and stat-ed and
\* which can be stat-ed themselves (the base path needs no listing of a parent).
RECURSIVE AncestorsOk(_)
AncestorsOk(n) == n = Base \/ (fsParent[n] # fsBad /\ AncestorsOk(fsParent[n]))
ReachableDir(n) == fsKind[n] = "dir" /\ AncestorsOk(n) /\ (n = Base \/ ~Unstatable(n))

\* C24: a finished, uncancelled enumeration of a tree that holds a
\* directory which cannot be listed or cannot be stat-ed (no links
\* followed) returns no error and yields exactly the target-depth
\* directories that can be stat-ed and are reached through listable,
\* stat-able parents.
C24_BadEntrySkipped ==
  (EnumDone /\ fsBad # 0 /\ (SymlinkFree \/ ~followSymlinks)) =>
    /\ eErr = ""
    /\ Range(yielded) = {PathTo(n) : n \in {m \in Nodes : ReachableDir(m) /\ Hops(m) = depth}}

\* An enumeration at depth 2 has finished on a tree with an unlistable
\* directory below the base, and has yielded a directory under its listable
\* sibling.
C24_Witness ==
  /\ EnumDone /\ depth = 2 /\ eErr = ""
  /\ fsBad # 0 /\ fsBadKind = "list" /\ fsParent[fsBad] = Base
  /\ yielded # <<>>

\* As C24_Witness, for a directory whose stat fails.
C24_WitnessStat ==
  /\ EnumDone /\ depth = 1 /\ eErr = ""
  /\ fsBad # 0 /\ fsBadKind = "stat" /\ fsParent[fsBad] = Base
  /\ yielded # <<>>

\* The strategy the priority Xattr > Command > Walk gives a path.
ByPriority(path) ==
  IF onCeph[path] THEN "ceph" ELSE IF hasDu THEN "du" ELSE "walk"

\* C25: in a scan by a scanner without preset strategy, every target
\* directory is measured by the strategy its own filesystem calls for.
C25_PerDirectoryStrategy ==
  preset = "nil" =>
    \A d \in 1..Len(usedStrategy) : usedStrategy[d] = ByPriority(d)

\* C26: whatever the combination of CephFS support and du availability,
\* the strategy selected for the base path by DetectStrategy, and for a
\* directory by the automatic strategy, is ceph if the path is on CephFS,
\* else du if du is resolvable, else walk.
Prioritised(path, chosen) ==
  /\ onCeph[path] => chosen = "ceph"
  /\ (~onCeph[path] /\ hasDu) => chosen = "du"
  /\ chosen = "walk" <=> (~onCeph[path] /\ ~hasDu)
C26_Priority ==
  /\ (preset = "nil" /\ scanStrategy # "unset") => Prioritised(0, scanStrategy)
  /\ preset = "auto" => \A d \in 1..Len(usedStrategy) : Prioritised(d, usedStrategy[d])

\* With du resolvable, a base path on CephFS got ceph from DetectStrategy.
C26_Witness ==
  /\ preset = "nil" /\ hasDu /\ onCeph # <<>> /\ onCeph[0]
  /\ scanStrategy = "ceph"

\* The automatic strategy measured one directory with ceph and one with walk.
C26_WitnessAuto ==
  /\ preset = "auto" /\ ~hasDu
  /\ usedStrategy = <<"ceph", "walk">>

\* C27: the un-flushed batch of a scan never holds more than batchSize
\* records, it holds fewer whenever runScan is between two results or has
\* left its loop without a failed flush, every RecordUsageBatch call carries
\* 1..batchSize records, and the calls made inside the loop carry exactly
\* batchSize.
FlushFailed(e) ==
  \E i \in 1..Len(callLog[e]) : callLog[e][i].op = "RecordUsageBatch" /\ ~callLog[e][i].ok
C27_BatchBound ==
  /\ \A p \in Paths :
       /\ Len(batch[p]) <= batchSize
       /\ (scanPc[p] \in {"loop", "finalflush"}) => Len(batch[p]) < batchSize
       /\ (scanNo[p] > 0 /\ ~FlushFailed(Cur(p))) => Len(batch[p]) < batchSize
  /\ \A e \in Execs : \A i \in 1..Len(callLog[e]) :
       callLog[e][i].op = "RecordUsageBatch" =>
         /\ callLog[e][i].n \in 1..batchSize
         /\ (\E j \in (i + 1)..Len(callLog[e]) : callLog[e][j].op = "RecordUsageBatch")
              => callLog[e][i].n = batchSize

\* A scan has flushed a full batch inside its loop and the single remaining
\* record after it.
C27_Witness ==
  \E e \in Execs : \E i, j \in 1..Len(callLog[e]) :
    /\ i < j
    /\ callLog[e][i].op = "RecordUsageBatch" /\ callLog[e][i].ok /\ callLog[e][i].n = batchSize
    /\ callLog[e][j].op = "RecordUsageBatch" /\ callLog[e][j].ok /\ callLog[e][j].n = 1

\* C28: a one-shot call reports a failed measurement in the Result of the
\* directory that failed and nowhere else: every Result carries an Error
\* exactly when the GetSize of its directory failed, the error of the call
\* is nil unless the enumeration failed or the call took the cancellation
\* branch, and a returned call that was not cancelled holds one Result for
\* every directory, failed or not.
InlineErrors(rs) == \A i \in 1..Len(rs) : rs[i].err <=> (rs[i].dir \in bFailed)
C28_ErrorsInline ==
  /\ InlineErrors(bResults) /\ InlineErrors(bResultCh)
  /\ bErr = "stat error" => (bOp = "ScanPath" /\ bDirs = 0 /\ bFailed = {})
  /\ bErr = "context canceled" => (bOp = "ScanPath" /\ bCtxDone)
  /\ bErr \in {"", "stat error", "context canceled"}
  /\ (bPc = "returned" /\ bOp = "ScanSingle") =>
       /\ bErr = ""
       /\ Len(bResults) = 1 /\ bResults[1].dir = 0
  /\ (bPc = "returned" /\ bOp = "ScanPath" /\ bDirs > 0 /\ ~bCtxDone) =>
       /\ bErr = ""
       /\ \A d \in 1..bDirs : \E i \in 1..Len(bResults) : bResults[i].dir = d

\* ScanPath has returned nil with the Result of a failed directory next to
\* the Result of a measured one.
C28_Witness ==
  /\ bPc = "returned" /\ bOp = "ScanPath" /\ bErr = "" /\ ~bCtxDone
  /\ \E i, j \in 1..Len(bResults) : bResults[i].err /\ ~bResults[j].err
  /\ bFailed # {}

\* ScanSingle has returned nil with a Result that carries the error.
C28_WitnessSingle ==
  /\ bPc = "returned" /\ bOp = "ScanSingle" /\ bErr = ""
  /\ bResults = <<[dir |-> 0, err |-> TRUE]>>

\* The entries a walk from entry n reaches: the entry itself and, below a
\* directory that can be read, what the walks from its entries reach.
RECURSIVE WalkedFrom(_)
WalkedFrom(n) ==
  {n} \cup IF fsKind[n] = "dir" /\ n \notin wkUnreadable
           THEN UNION {WalkedFrom(c) : c \in {m \in Nodes : fsParent[m] = n}}
           ELSE {}
RECURSIVE SumSizes(_)
SumSizes(S) == IF S = {} THEN 0 ELSE LET x == CHOOSE y \in S : TRUE IN SizeOf(x) + SumSizes(S \ {x})

\* The sum over the readable non-directory entries the walk reaches.
ReadableSum ==
  LET r == ResolvedPath(wkRoot) IN
  IF fsKind[r] = "missing" THEN 0
  ELSE SumSizes({n \in WalkedFrom(r) : fsKind[n] # "dir" /\ n \notin wkUnreadable})

\* C29: GetSize of the Walk strategy never fails because of an entry that
\* cannot be read: its only error is the cancellation error, without it the
\* size is the sum over the readable entries reached through readable
\* directories, and a callback that runs with the context cancelled ends the
\* walk with the cancellation error and size 0.
C29_WalkSkipsAndCancels ==
  /\ [](wkPc = "done" =>
          /\ wkErr \in {"", "context canceled"}
          /\ wkErr = "" => wkSize = ReadableSum
          /\ wkErr = "context canceled" => (wkSize = 0 /\ wkCtxDone))
  /\ [][(wkPc = "walk" /\ wkTodo # <<>> /\ wkCtxDone /\ wkTodo' # wkTodo)
          => (wkPc' = "done" /\ wkErr' = "context canceled" /\ wkSize' = 0)]_vars

\* A walk has returned the size of its one readable file without an error
\* although it met a directory that could not be read and holds a file.
C29_Witness ==
  /\ wkPc = "done" /\ wkErr = "" /\ wkSize > 0
  /\ \E d, c \in Nodes :
       /\ d \in wkUnreadable /\ d \in WalkedFrom(ResolvedPath(wkRoot))
       /\ fsKind[d] = "dir" /\ fsParent[c] = d /\ fsKind[c] = "file"
       /\ wkSize < SizeOf(c)

\* A walk has returned without an error the size of a readable file next to
\* a file that could not be read.
C29_WitnessFile ==
  /\ wkPc = "done" /\ wkErr = ""
  /\ \E f, g \in WalkedFrom(ResolvedPath(wkRoot)) :
       /\ fsKind[f] = "file" /\ f \in wkUnreadable
       /\ fsKind[g] = "file" /\ wkSize = SizeOf(g)

\* A walk that had already summed a file was cancelled and returned the
\* cancellation error with size 0.
C29_WitnessCancel ==
  /\ wkPc = "done" /\ wkErr = "context canceled" /\ wkSize = 0 /\ wkTotal > 0

\* C30: in every streaming scan close(dirCh) and close(resultCh) are each
\* executed at most once, exactly once when the enumerator has returned and
\* when the result channel is closed, nothing is sent on a closed channel,
\* and the result channel of a started pipeline is closed only with every
\* worker finished (which no later step undoes).
C30_ChannelsClosedOnce ==
  \A e \in Execs :
    /\ chanOps[e].dirCh = (IF enumPc[e] = "done" THEN 1 ELSE 0)
    /\ chanOps[e].resultCh = (IF resClosed[e] THEN 1 ELSE 0)
    /\ dirClosed[e] <=> (enumPc[e] = "done")
    /\ ~chanOps[e].late
    /\ (resClosed[e] /\ enumPc[e] # "none") => \A w \in DOMAIN wPc[e] : wPc[e][w] = "done"

\* A cancelled scan whose enumerator returned from a blocked send, with a
\* worker that left through its cancellation case, has closed both channels.
C30_Witness ==
  \E e \in Execs :
    /\ cancelAt[e] # None /\ emitted[e] < dirLimit[e[1]]
    /\ chanOps[e] = [dirCh |-> 1, resultCh |-> 1, late |-> FALSE]
    /\ Count(measured[e], 1) > Count(produced[e], 1)

\* A scan that ran to the end has closed both channels.
C30_WitnessComplete ==
  \E e \in Execs :
    /\ cancelAt[e] = None /\ emitted[e] = MaxDirs /\ Len(wPc[e]) = MaxWorkers
    /\ chanOps[e] = [dirCh |-> 1, resultCh |-> 1, late |-> FALSE]

\* Results the consumer has taken from resultCh: those sent on it that are
\* no longer in it.
RECURSIVE Total(_)
Total(c) ==
  IF DOMAIN c = {} THEN 0
  ELSE LET d == CHOOSE x \in DOMAIN c : TRUE
       IN c[d] + Total([x \in DOMAIN c \ {d} |-> c[x]])
Taken(e) == Total(produced[e]) - Len(resultCh[e])

\* C31: with W workers the input channel of a streaming scan never holds
\* more than 4W paths, the result channel never more than 2W results, the
\* directories emitted whose result the consumer has not taken never exceed
\* 4W + W + 2W, and the enumerator emits only into a channel with room.
C31_Backpressure ==
  /\ [](\A e \in Execs :
          /\ Len(dirCh[e]) <= 4 * workers
          /\ Len(resultCh[e]) <= 2 * workers
          /\ emitted[e] - Taken(e) <= 4 * workers + workers + 2 * workers)
  /\ [][\A e \in Execs : emitted'[e] # emitted[e] => Len(dirCh[e]) < 4 * workers]_vars

\* The enumerator of a one-worker scan is blocked with 4W + W + 2W
\* directories emitted, none taken by the consumer, and more to emit.
C31_Witness ==
  \E e \in Execs :
    /\ workers = 1
    /\ enumPc[e] = "send" /\ Len(dirCh[e]) = 4 * workers
    /\ Len(resultCh[e]) = 2 * workers
    /\ emitted[e] - Taken(e) = 7 * workers
    /\ emitted[e] < dirLimit[e[1]]

\* C32: a path loop enters runScan only when no scan of its entry is
\* executing: the scans of an entry are numbered one by one, a scan starts
\* with the previous runScan returned, and a scan that is over makes no
\* further storage call.
C32_ScansSequential ==
  [][\A p \in Paths :
       /\ scanNo'[p] # scanNo[p] =>
            /\ scanNo'[p] = scanNo[p] + 1
            /\ scanPc[p] = "idle"
            /\ \A k \in 1..scanNo[p] : PcOf(<<p, k>>) = "over"
       /\ \A k \in 1..scanNo[p] :
            PcOf(<<p, k>>) = "over" => callLog'[<<p, k>>] = callLog[<<p, k>>]]_vars

\* The second scan of an entry is executing after a first scan that made
\* storage calls, with a further tick pending.
C32_Witness ==
  \E p \in Paths :
    /\ scanNo[p] = 2 /\ scanPc[p] \notin {"idle", "startscan"}
    /\ Len(callLog[<<p, 1>>]) >= 2
    /\ PcOf(<<p, 1>>) = "over"

\* C33: Stop may be called again while the daemon is running: no call of
\* Stop panics, and a Stop made after the stop channel was closed and before
\* Run has returned leaves the daemon as the first Stop left it.
C33_StopRepeatable ==
  /\ [](~panicked)
  /\ [][(stopsLeft' < stopsLeft /\ running /\ stopCh # None /\ stopCh[2])
          => UNCHANGED <<running, runPc, stopCh, doneCh, panicked>>]_vars

\* C34: once the context of the path loops is cancelled no path loop starts
\* a scan: in no step taken with that context cancelled is a scan
\* registered or a StartScan call made.
StartScanCalls(e) ==
  Cardinality({i \in 1..Len(callLog[e]) : callLog[e][i].op = "StartScan"})
C34_NoScanAfterCancel ==
  [][PathCtxDone =>
       /\ \A p \in Paths : scanNo'[p] = scanNo[p]
       /\ \A e \in Execs : StartScanCalls(e)' = StartScanCalls(e)]_vars

\* C35: an enumeration that ended without cancellation has yielded, in
\* either mode, the paths getDirectoriesAtDepth computes for the file
\* system, the depth and the follow-symlinks setting: the streaming
\* enumerator emits exactly what the eager one returns.
C35_StreamingEqualsEager ==
  (fsKind # <<>> /\ ePc = "done" /\ ~eCtxDone) =>
    /\ Range(yielded) = Range(getDirectoriesAtDepth)
    /\ eMode = "eager" => yielded = getDirectoriesAtDepth

\* A streaming enumeration at depth 2 that followed a link has ended
\* uncancelled with what the eager one returns, a link path included.
C35_Witness ==
  /\ fsKind # <<>> /\ ePc = "done" /\ ~eCtxDone
  /\ eMode = "stream" /\ depth = 2 /\ followSymlinks
  /\ yielded # <<>>
  /\ \E i \in 1..Len(yielded) : \E j \in 1..Len(yielded[i]) : fsKind[yielded[i][j]] = "link"

\* C36: every path that the enumeration of a file system at a depth yields
\* with follow-symlinks disabled is yielded by the enumeration of the same
\* file system at the same depth with follow-symlinks enabled.
C36_FollowLosesNothing ==
  (fsKind # <<>> /\ ePc = "done" /\ ~eCtxDone) =>
    IF followSymlinks
    THEN Range(getDirectoriesNoFollow) \subseteq Range(yielded)
    ELSE Range(getDirectoriesNoFollow) = Range(yielded)

\* A path with a directory below the base path that some symlink of the
\* file system resolves to.
Aliased(q) ==
  \E i \in 2..Len(q) : \E l \in Nodes : fsKind[l] = "link" /\ fsTarget[l] = q[i]

\* C36 as amended: every path yielded with follow-symlinks disabled, none
\* of whose directories below the base path is the resolved target of a
\* symlink, is yielded with follow-symlinks enabled.
C36_FollowLosesNoUnaliased ==
  (fsKind # <<>> /\ ePc = "done" /\ ~eCtxDone) =>
    IF followSymlinks
    THEN \A q \in Range(getDirectoriesNoFollow) : ~Aliased(q) => q \in Range(yielded)
    ELSE Range(getDirectoriesNoFollow) = Range(yielded)

\* With follow-symlinks enabled an enumeration has yielded a path through
\* a link, the one unaliased path of the enumeration without links, and not
\* the path of the directory the link resolves to.
C36_Witness ==
  /\ fsKind # <<>> /\ ePc = "done" /\ ~eCtxDone /\ followSymlinks
  /\ \E q \in Range(yielded) : LinkOnPath(q)
  /\ \E q \in Range(getDirectoriesNoFollow) : ~Aliased(q) /\ q \in Range(yielded)
  /\ \E q \in Range(getDirectoriesNoFollow) : Aliased(q) /\ q \notin Range(yielded)

\* Directories of scan e measured without an error.
MeasuredOk(e) == {d \in DOMAIN measured[e] : d \notin measureFailed[e]}

\* C37: every usage record persisted, and every record held in a batch to
\* be handed to persistence, stems from a result without error of the scan
\* execution it names and carries that execution's identifier and the base
\* path of its monitored path; no directory of a scan is handed over twice:
\* the batch holds no directory twice and none already persisted, and the
\* successful calls of a scan wrote as many records as the scan has.
C37_RecordsFromOwnResults ==
  /\ \A r \in usage :
       /\ Live(r.scan)
       /\ r.base = Key(r.scan[1])
       /\ r.dir \in MeasuredOk(r.scan)
  /\ \A e \in Execs : Live(e) => Cardinality(UsageOf(e)) = Flushed(e, Len(callLog[e]))
  /\ \A p \in Paths : scanNo[p] > 0 =>
       /\ \A i \in 1..Len(batch[p]) :
            /\ batch[p][i] \in MeasuredOk(Cur(p))
            /\ \A r \in UsageOf(Cur(p)) : r.dir # batch[p][i]
       /\ \A i, j \in 1..Len(batch[p]) : batch[p][i] = batch[p][j] => i = j

\* A scan with a directory whose measurement failed has ended with the
\* records of its other directories persisted.
C37_Witness ==
  \E e \in Execs :
    /\ Ended(e)
    /\ measureFailed[e] # {}
    /\ Cardinality(UsageOf(e)) = batchSize
    /\ \E i \in 1..Len(callLog[e]) : callLog[e][i].op = "RecordUsageBatch" /\ callLog[e][i].ok

\* The terminal scan-record calls (CompleteScan, FailScan) made for scan e.
TerminalCalls(e) == {i \in LogIdx(e) : callLog[e][i].op \in {"CompleteScan", "FailScan"}}

\* C38: for every scan at most one terminal scan-record call is made, and
\* it is the last storage call of the scan: CompleteScan and FailScan are
\* never both called, neither is called twice, and no RecordUsageBatch call
\* follows; a scan for which StartScan failed gets no further call at all.
C38_OneTerminalCall ==
  \A e \in Execs :
    /\ Cardinality(TerminalCalls(e)) <= 1
    /\ \A i \in TerminalCalls(e) : i = Len(callLog[e])
    /\ \A i \in LogIdx(e) : (callLog[e][i].op = "StartScan") <=> (i = 1)
    /\ (callLog[e] # <<>> /\ ~callLog[e][1].ok) => Len(callLog[e]) = 1

\* A scan has ended after a successful flush and a CompleteScan call that
\* failed: no FailScan call followed.
C38_Witness ==
  \E e \in Execs :
    /\ Ended(e)
    /\ Len(callLog[e]) >= 3
    /\ callLog[e][Len(callLog[e])].op = "CompleteScan" /\ ~callLog[e][Len(callLog[e])].ok
    /\ \E i \in LogIdx(e) : callLog[e][i].op = "RecordUsageBatch" /\ callLog[e][i].ok

\* A scan has ended with FailScan as its one terminal call after a flush.
C38_WitnessFail ==
  \E e \in Execs :
    /\ Ended(e)
    /\ callLog[e][Len(callLog[e])].op = "FailScan"
    /\ \E i \in LogIdx(e) : callLog[e][i].op = "RecordUsageBatch" /\ callLog[e][i].ok

====
